---- MODULE Spec2Model ----
(***************************************************************************)
(* governor: the GCRA decision engine (gcra.rs), the atomic state cell     *)
(* (state/in_memory.rs), the direct rate limiter (state/direct.rs) and the *)
(* fake clock (clock.rs).                                                  *)
(*                                                                         *)
(* Integer widths are scaled down: a u64 is an integer below U64Modulus    *)
(* and a u32 an integer below U32Modulus, with U32Modulus^2 = U64Modulus   *)
(* as for the real widths.  An arithmetic overflow panics when the crate   *)
(* is built with overflow checks (debug profile) and wraps otherwise       *)
(* (release profile); overflow_checks records the profile.                 *)
(***************************************************************************)
EXTENDS Integers, Naturals, Sequences, FiniteSets, TLC

\* ---------------------------------------------------------------- bounds
\* The scaled integer widths.
U32Modulus == 16
U64Modulus == 256
\* Largest reading of the fake clock in the sequential specification.
MaxNow == 9
\* Longest time window examined for the admission bound.
MaxWindow == 3
\* The concurrent specification: number of threads, largest clock reading
\* and number of spurious compare-exchange failures.
NThreads == 2
MaxNowConc == 1
MaxSpurious == 1

Max(a, b) == IF a >= b THEN a ELSE b
Min(a, b) == IF a <= b THEN a ELSE b
Monus(a, b) == IF a >= b THEN a - b ELSE 0

\* The quotas the limiter is constructed with: per_second-like quotas of
\* bursts 1, 2, 3 and 10, a slow quota whose cell cost is large enough for
\* t * (n - 1) to leave the u64 range, and a quota whose replenish interval
\* floors to zero.
Quotas ==
    { [max_burst |-> 1,  replenish_1_per |-> 1],
      [max_burst |-> 2,  replenish_1_per |-> 1],
      [max_burst |-> 3,  replenish_1_per |-> 2],
      [max_burst |-> 10, replenish_1_per |-> 1],
      [max_burst |-> 2,  replenish_1_per |-> 32],
      [max_burst |-> 4,  replenish_1_per |-> 0] }

\* NonZeroU32 arguments of check_n / check_any_n.
NonZeroU32 == 1 .. (U32Modulus - 1)

\* ----------------------------------------------------------------- Nanos
\* Option<Nanos>: <<>> is None, <<v>> is Some(v).
None == << >>
Some(v) == << v >>
unwrap_or(o, d) == IF o = None THEN d ELSE o[1]

\* NonZeroU64::new(prev).map(|n| n.get().into())
NonZeroU64_new(prev) == IF prev = 0 THEN None ELSE Some(prev)

\* Nanos + Nanos, Nanos * u64 on u64, and whether they leave the range.
Nanos_add(a, b) == (a + b) % U64Modulus
Nanos_add_overflows(a, b) == a + b >= U64Modulus
Nanos_mul(a, k) == (a * k) % U64Modulus
Nanos_mul_overflows(a, k) == a * k >= U64Modulus
Nanos_saturating_sub(a, b) == IF a >= b THEN a - b ELSE 0

\* `x as u32` and u32 + u32.
as_u32(x) == x % U32Modulus
u32_add(a, b) == (a + b) % U32Modulus
u32_add_overflows(a, b) == a + b >= U32Modulus

\* clock::Reference for Nanos (the instant type of FakeRelativeClock).
duration_since(later, earlier) == Nanos_saturating_sub(later, earlier)

\* ------------------------------------------------------------------ Gcra
\* Faulty variant: the tolerance counts the first cell too.
Gcra_new_tau_of_whole_burst(quota) ==
    LET t == Max(quota.replenish_1_per, 1)
    IN  [t |-> t, tau |-> Nanos_mul(t, quota.max_burst)]

\* Faulty variant: the cell cost is the replenish interval as it is.
Gcra_new_no_floor(quota) ==
    [t |-> quota.replenish_1_per,
     tau |-> Nanos_mul(quota.replenish_1_per, quota.max_burst - 1)]

\* Gcra::new
Gcra_new(quota) ==
    LET t == Max(quota.replenish_1_per, 1)
    IN  [t |-> t, tau |-> Nanos_mul(t, quota.max_burst - 1)]

\* The outcomes of a decision closure.  `tat` is the tat of the
\* StateSnapshot handed to the middleware: on Ok it is also the value to
\* store; on NotUntil it is the earliest conforming offset.  `panics` tells
\* that an arithmetic operation of the decision left its range.
Allow(cells, t0, next, ovf) ==
    [kind |-> "Ok", cells |-> cells, time_of_measurement |-> t0,
     tat |-> next, panics |-> ovf]
Disallow(earliest_time, ovf) ==
    [kind |-> "NotUntil", cells |-> 0, time_of_measurement |-> earliest_time,
     tat |-> earliest_time, panics |-> ovf]
InsufficientCapacity(cap) ==
    [kind |-> "InsufficientCapacity", cells |-> 0, time_of_measurement |-> 0,
     tat |-> cap, panics |-> FALSE]
Panicked ==
    [kind |-> "Panic", cells |-> 0, time_of_measurement |-> 0,
     tat |-> 0, panics |-> TRUE]

\* Faulty variant: the admitted tat without the max: tat + t.
next_tat_one_no_max(g, tat, t0) == Nanos_add(tat, g.t)

\* Faulty variant: the tolerance is added in place of the cell cost.
next_tat_one_plus_tau(g, tat, t0) == Nanos_add(Max(tat, t0), g.tau)

\* The admitted tat of a single cell: max(tat, t0) + t.
next_tat_one(g, tat, t0) == Nanos_add(Max(tat, t0), g.t)

\* The closure of Gcra::test_and_update.
test_and_update(g, t0, prev) ==
    LET tat == unwrap_or(prev, t0)
        earliest_time == Nanos_saturating_sub(tat, g.tau)
    IN  IF t0 < earliest_time
        THEN Disallow(earliest_time, FALSE)
        ELSE Allow(1, t0, next_tat_one(g, tat, t0),
                   Nanos_add_overflows(Max(tat, t0), g.t))

\* additional_weight = t * (n - 1) of test_n_all_and_update.
additional_weight_of(g, n) == Nanos_mul(g.t, n - 1)

\* The capacity test of test_n_all_and_update.
exceeds_capacity(g, n) == additional_weight_of(g, n) > g.tau

\* Faulty variant: no cap at the burst size.
burst_capacity_uncapped(g) == U32Modulus - 1

\* The payload of InsufficientCapacity, also burst_capacity of
\* test_any_n_and_update.
burst_capacity(g) == u32_add(1, as_u32(g.tau \div g.t))

\* Faulty variant: the batch is tested like a single cell.
test_n_all_closure_first_cell_only(g, n, t0, prev) ==
    LET tat == unwrap_or(prev, t0)
        additional_weight == additional_weight_of(g, n)
        earliest_time == Nanos_saturating_sub(tat, g.tau)
        first == Nanos_add(Max(tat, t0), g.t)
    IN  IF t0 < earliest_time
        THEN Disallow(earliest_time, FALSE)
        ELSE Allow(n, t0, Nanos_add(first, additional_weight), FALSE)

\* The closure of Gcra::test_n_all_and_update.
test_n_all_closure(g, n, t0, prev) ==
    LET tat == unwrap_or(prev, t0)
        additional_weight == additional_weight_of(g, n)
        earliest_time ==
            Nanos_saturating_sub(Nanos_add(tat, additional_weight), g.tau)
        ovf1 == Nanos_add_overflows(tat, additional_weight)
        first == Nanos_add(Max(tat, t0), g.t)
    IN  IF t0 < earliest_time
        THEN Disallow(earliest_time, ovf1)
        ELSE Allow(n, t0, Nanos_add(first, additional_weight),
                   \/ ovf1
                   \/ Nanos_add_overflows(Max(tat, t0), g.t)
                   \/ Nanos_add_overflows(first, additional_weight))

\* max_cells_available of test_any_n_and_update.
max_cells_available(g, t0, tat) ==
    IF tat > Nanos_add(t0, g.tau)
    THEN 0
    ELSE LET available_time ==
                 Nanos_saturating_sub(Nanos_add(t0, g.tau), tat)
         IN  u32_add(as_u32(available_time \div g.t), 1)

max_cells_overflows(g, t0, tat) ==
    \/ Nanos_add_overflows(t0, g.tau)
    \/ /\ tat <= Nanos_add(t0, g.tau)
       /\ u32_add_overflows(
              as_u32(Nanos_saturating_sub(Nanos_add(t0, g.tau), tat) \div g.t), 1)

\* The closure of Gcra::test_any_n_and_update.
test_any_n_and_update(g, n, t0, prev) ==
    LET tat == unwrap_or(prev, t0)
        n_to_admit ==
            Min(Min(n, max_cells_available(g, t0, tat)), burst_capacity(g))
        additional_weight == Nanos_mul(g.t, n_to_admit - 1)
        first == Nanos_add(Max(tat, t0), g.t)
    IN  IF n_to_admit > 0
        THEN Allow(n_to_admit, t0, Nanos_add(first, additional_weight),
                   \/ max_cells_overflows(g, t0, tat)
                   \/ Nanos_mul_overflows(g.t, n_to_admit - 1)
                   \/ Nanos_add_overflows(Max(tat, t0), g.t)
                   \/ Nanos_add_overflows(first, additional_weight))
        ELSE Allow(0, t0, tat, max_cells_overflows(g, t0, tat))

\* ------------------------------------------------------------- variables
VARIABLES
    quota,            \* the Quota the limiter was constructed with
    gcra,             \* RateLimiter.gcra
    overflow_checks,  \* TRUE: overflow panics; FALSE: overflow wraps
    start,            \* RateLimiter.start
    now,              \* FakeRelativeClock.now
    cell,             \* InMemoryState.0 of the direct limiter
    last,             \* the call made at the current instant, if any
    denial,           \* earliest_possible() of a standing denial of check()
    burst,            \* the run of like calls since the cell was seen full
    recent,           \* cells admitted at each of the last instants
    watch,            \* which of last/denial, burst, recent is recorded
    thr,              \* per thread: the call it is in and where it stands
    spurious,         \* spurious compare-exchange failures so far
    cell0,            \* the cell when the threads were started
    seqCell,          \* the cell of the sequential replay of the calls
    peeked,           \* the outcome of the peek just made on this state
    twin,             \* since a reset: a never-used cell given the same calls
    store,            \* the keyed state store: key -> InMemoryState.0
    hasher,           \* the BuildHasher the store was constructed with
    store_type,       \* HashMapStateStore or DashMapStateStore
    pipe,             \* the rate-limited sink, stream or future in use
    calc,             \* the conversion made last, with what it was given
    middleware,       \* the limiter's RateLimitingMiddleware type
    own,              \* per key: a cell of its own given the key's calls
    evicted,          \* the keys retain_recent has removed so far
    klast,            \* the keyed call or retain_recent made last
    kthr              \* per thread: the keyed call it is in

seqvars == << quota, gcra, overflow_checks, start, now, cell,
              last, denial, burst, recent, watch >>
concvars == << thr, spurious, cell0, seqCell >>
peekvars == << peeked, twin >>
keyedvars == << store, hasher, store_type, pipe, calc, middleware, own, evicted, klast, kthr >>
vars == << seqvars, concvars, peekvars, keyedvars >>

Threads == 1 .. NThreads

\* The keys of the keyed limiter (key1 = 1u32, key2 = 2u32).
Keys == {1, 2}

\* HashMap::default(): no key is present.
EmptyStore == [k \in {} |-> 0]

\* No conversion has been made.
NoCalc == [op |-> "none", ty |-> "none", a |-> 0, b |-> 0, out |-> 0,
           panics |-> FALSE]

KeyedIdle == [pc |-> "idle", op |-> "none", key |-> 0, reading |-> 0,
              prev |-> 0, found |-> FALSE,
              calls |-> [k \in Keys |-> 0], admitted |-> [k \in Keys |-> 0],
              out |-> InsufficientCapacity(0), lin |-> InsufficientCapacity(0)]
NoKeyedCall == [op |-> "none", key |-> 0, n |-> 0, t0 |-> 0,
                out |-> InsufficientCapacity(0),
                lin |-> InsufficientCapacity(0),
                payload |-> None, found |-> FALSE, before |-> EmptyStore]

\* No sink, stream or future has been made on the limiter.
NoPipe == [kind |-> "none", state |-> "none", pc |-> "idle", deadline |-> 0,
           jitter |-> 0, n |-> 0, buf |-> 0, produced |-> 0, passed |-> << >>,
           checks |-> 0, admitted |-> 0, delays |-> 0, result |-> "none",
           key |-> 0, earliest |-> 0]

\* The direct limiter has no keyed store (its key type is NotKeyed).
NotKeyedWith(p) ==
    /\ store = EmptyStore
    /\ hasher = "DefaultHasher"
    /\ store_type = "HashMapStateStore"
    /\ pipe = p
    /\ calc = NoCalc
    /\ middleware = "NoOpMiddleware"
    /\ own = [k \in Keys |-> 0]
    /\ evicted = {}
    /\ klast = NoKeyedCall
    /\ kthr = [i \in Threads |-> KeyedIdle]

NotKeyed == NotKeyedWith(NoPipe)

NoCall == [op |-> "none", n |-> 0, t0 |-> 0, prev |-> 0, hint |-> None,
           out |-> InsufficientCapacity(0)]
NoBurst == [op |-> "none", at |-> 0, from |-> 0, cells |-> 0,
            n |-> 0, k |-> 0, denied |-> FALSE, full |-> FALSE]
\* A run of checks used the burst up and the limiter has been idle since.
Spent == [NoBurst EXCEPT !.op = "spent"]
NoRecent == [i \in 0 .. MaxWindow |-> 0]
Idle == [pc |-> "idle", op |-> "none", n |-> 0, t0 |-> 0, prev |-> 0,
         original_prev |-> 0, replaced |-> 0,
         retried |-> FALSE, seen |-> 0, out |-> InsufficientCapacity(0),
         lin |-> InsufficientCapacity(0)]

\* A panic unwinds out of the call before anything is stored.
Outcome(decision) ==
    IF decision.panics /\ overflow_checks THEN Panicked ELSE decision

\* Faulty variant: what the decision carries is stored whatever it is.
measure_and_replace_one_stores_always(out) == out.tat

\* InMemoryState::measure_and_replace_one with no concurrent caller: the
\* compare-exchange of an Ok decision succeeds (after any number of
\* spurious failures, which re-run the decision on the same value).
measure_and_replace_one(out) == IF out.kind = "Ok" THEN out.tat ELSE cell

\* Faulty variant: the value first read is not stored back.
measure_and_peek_one_no_restore(out, original_prev) ==
    IF out.kind = "Ok" THEN out.tat ELSE cell

\* InMemoryState::measure_and_peek_one with no concurrent caller: the
\* compare-exchange of an Ok decision succeeds and the value first read is
\* stored back; an Err decision is returned with nothing stored.
measure_and_peek_one(out, original_prev) ==
    IF out.kind = "Ok" THEN original_prev ELSE cell

\* The calls that peek, and the call each of them previews.
PeekOps == {"check_only", "check_n_only"}
Previewed(op) ==
    CASE op = "check_only" -> "check"
      [] op = "check_n_only" -> "check_n"
      [] OTHER -> op

\* Faulty variant: the offset from start taken for the instant.
earliest_possible_offset(out) == out.tat

\* NotUntil::earliest_possible and NotUntil::wait_time_from.
earliest_possible(out) == start + out.tat
wait_time_from(out, from) ==
    duration_since(earliest_possible(out), Min(earliest_possible(out), from))

\* Whether the cell is full as seen by a call at offset t0.
Replenished(prev, t0) == prev = 0 \/ prev <= t0

\* The run of consecutive calls of one kind that lies within one cell cost
\* of its beginning, and began on a full cell or (checks only) after the
\* limiter idled with its burst used up.
BurstAfter(op, n, t0, out) ==
    IF op \notin {"check", "check_any_n"} \/ out.kind = "Panic"
    THEN NoBurst
    ELSE IF burst.op = op
    THEN [burst EXCEPT !.cells = @ + out.cells, !.n = n, !.k = out.cells,
                       !.denied = out.kind = "NotUntil"]
    ELSE IF Replenished(cell, t0) \/ (op = "check" /\ burst.op = "spent")
    THEN [op |-> op, at |-> now, from |-> cell, cells |-> out.cells,
          n |-> n, k |-> out.cells, denied |-> out.kind = "NotUntil",
          full |-> Replenished(cell, t0)]
    ELSE NoBurst

\* Gcra::test_n_all_and_update
test_n_all_and_update(g, n, t0, prev) ==
    IF Nanos_mul_overflows(g.t, n - 1) /\ overflow_checks
    THEN Panicked
    ELSE IF exceeds_capacity(g, n)
    THEN InsufficientCapacity(burst_capacity(g))
    ELSE Outcome(test_n_all_closure(g, n, t0, prev))

\* The whole decision of a call (a peek decides as the call it previews)
\* on a cell holding `value`.
DecisionBy(g, op, n, t0, value) ==
    CASE Previewed(op) = "check" ->
             Outcome(test_and_update(g, t0, NonZeroU64_new(value)))
      [] Previewed(op) = "check_n" ->
             test_n_all_and_update(g, n, t0, NonZeroU64_new(value))
      [] Previewed(op) = "check_any_n" ->
             Outcome(test_any_n_and_update(g, n, t0, NonZeroU64_new(value)))
Decision(op, n, t0, value) == DecisionBy(gcra, op, n, t0, value)

\* The never-used cell that has been given the calls made since the last
\* reset, with the outcome it gave to the call just made; `before` tells
\* whether the burst of the real cell was used up when it was reset.
TwinAfter(op, n, t0) ==
    IF twin = None THEN None
    ELSE LET out == Decision(op, n, t0, twin[1].cell)
         IN  Some([cell |-> IF out.kind = "Ok" /\ op \notin PeekOps
                            THEN out.tat ELSE twin[1].cell,
                   out |-> out, before |-> twin[1].before])

\* The bookkeeping common to the calls.
Record(op, n, t0, out) ==
    /\ cell' = IF op \in PeekOps
               THEN measure_and_peek_one(out, cell)
               ELSE measure_and_replace_one(out)
    /\ last' = IF watch = "call"
               THEN [op |-> op, n |-> n, t0 |-> t0, prev |-> cell,
                     hint |-> denial, out |-> out]
               ELSE IF watch \in {"peek", "reset", "snapshot"}
               THEN [op |-> op, n |-> n, t0 |-> t0, prev |-> cell,
                     hint |-> peeked, out |-> out]
               ELSE NoCall
    /\ denial' = IF watch = "call" /\ op = "check" /\ out.kind = "NotUntil"
                 THEN Some(earliest_possible(out)) ELSE None
    /\ burst' = IF watch \in {"burst", "snapshot"}
                THEN BurstAfter(op, n, t0, out) ELSE NoBurst
    /\ recent' = IF watch = "window"
                 THEN [recent EXCEPT ![0] = @ + out.cells] ELSE recent
    /\ peeked' = IF watch = "peek" /\ op \in PeekOps
                 THEN Some([op |-> op, n |-> n, out |-> out]) ELSE None
    /\ twin' = IF watch = "reset" THEN TwinAfter(op, n, t0) ELSE None
    /\ UNCHANGED << quota, gcra, overflow_checks, start, now, watch >>
    /\ UNCHANGED concvars
    /\ UNCHANGED keyedvars

\* RateLimiter::check
check ==
    LET t0 == duration_since(now, start)
    IN  Record("check", 1, t0,
               Outcome(test_and_update(gcra, t0, NonZeroU64_new(cell))))

\* RateLimiter::check_n
check_n(n) ==
    LET t0 == duration_since(now, start)
    IN  Record("check_n", n, t0,
               test_n_all_and_update(gcra, n, t0, NonZeroU64_new(cell)))

\* RateLimiter::check_any_n
check_any_n(n) ==
    LET t0 == duration_since(now, start)
    IN  Record("check_any_n", n, t0,
               Outcome(test_any_n_and_update(gcra, n, t0, NonZeroU64_new(cell))))

\* RateLimiter::check_only: the decision of check, peeked.
check_only ==
    LET t0 == duration_since(now, start)
    IN  Record("check_only", 1, t0,
               Outcome(test_and_update(gcra, t0, NonZeroU64_new(cell))))

\* RateLimiter::check_n_only: the decision of check_n, peeked.
check_n_only(n) ==
    LET t0 == duration_since(now, start)
    IN  Record("check_n_only", n, t0,
               test_n_all_and_update(gcra, n, t0, NonZeroU64_new(cell)))

\* Faulty variant: the cell is set to the current offset.
InMemoryState_reset_to_now == duration_since(now, start)

\* InMemoryState::reset: self.0.store(0, Ordering::Release).
InMemoryState_reset == 0

\* RateLimiter::reset
reset ==
    /\ cell' = InMemoryState_reset
    /\ last' = IF watch \in {"peek", "reset"}
               THEN [NoCall EXCEPT !.op = "reset", !.prev = cell] ELSE NoCall
    /\ twin' = IF watch = "reset"
               THEN Some([cell |-> 0, out |-> InsufficientCapacity(0),
                          before |-> cell > duration_since(now, start) + gcra.tau])
               ELSE None
    /\ peeked' = None
    /\ denial' = None
    /\ burst' = NoBurst
    /\ UNCHANGED << quota, gcra, overflow_checks, start, now, recent, watch >>
    /\ UNCHANGED concvars
    /\ UNCHANGED keyedvars

\* FakeRelativeClock::advance with no concurrent advance: the
\* compare-exchange loop ends with now + by stored.
advance(by, limit) ==
    /\ now + by <= limit
    /\ now' = now + by
    /\ last' = NoCall
    /\ burst' = IF burst.op = "none" THEN NoBurst
                ELSE IF burst.op # "spent" /\ now + by - burst.at < gcra.t
                THEN burst
                ELSE IF burst.op = "spent" \/ (burst.op = "check" /\ burst.denied)
                THEN Spent ELSE NoBurst
    /\ recent' = [i \in 0 .. MaxWindow |->
                     IF i >= by THEN recent[i - by] ELSE 0]
    /\ peeked' = None
    /\ UNCHANGED << quota, gcra, overflow_checks, start, cell, denial, watch,
                    twin >>
    /\ UNCHANGED concvars
    /\ klast' = NoKeyedCall
    /\ UNCHANGED << store, hasher, store_type, pipe, calc, middleware, own, evicted, kthr >>

\* RateLimiter::direct_with_clock: the limiter is constructed on a clock
\* that reads `start`, with a never-used cell.
Constructed ==
    /\ quota \in Quotas
    /\ gcra = Gcra_new(quota)
    /\ overflow_checks \in BOOLEAN
    /\ start \in {0, 1}
    /\ now = start
    /\ cell = 0
    /\ last = NoCall
    /\ denial = None
    /\ burst = NoBurst
    /\ recent = NoRecent
    /\ thr = [i \in Threads |-> Idle]
    /\ spurious = 0
    /\ cell0 = 0
    /\ seqCell = 0
    /\ peeked = None
    /\ twin = None
    /\ NotKeyed

InitSeq == Constructed /\ watch = "call"
InitBurst == Constructed /\ watch = "burst"
InitWindow == Constructed /\ watch = "window"
InitPeek == Constructed /\ watch = "peek"
InitReset == Constructed /\ watch = "reset"

NextSeq ==
    \/ check
    \/ \E n \in NonZeroU32 : check_n(n)
    \/ \E n \in NonZeroU32 : check_any_n(n)
    \/ \E by \in 1 .. MaxNow : advance(by, MaxNow)

SpecSeq == InitSeq /\ [][NextSeq]_vars
SpecBurst == InitBurst /\ [][NextSeq]_vars
SpecWindow == InitWindow /\ [][NextSeq]_vars

\* The batch sizes of the calls made along with peeks and resets.
BatchSizesPeek == {2, 3, 9}

\* The direct limiter with its peeking calls and reset.
NextPeek ==
    \/ check
    \/ \E n \in BatchSizesPeek : check_n(n)
    \/ check_only
    \/ \E n \in BatchSizesPeek : check_n_only(n)
    \/ reset
    \/ \E by \in 1 .. MaxNow : advance(by, MaxNow)

SpecPeek == InitPeek /\ [][NextPeek]_vars
SpecReset == InitReset /\ [][NextPeek]_vars

\* -------------------------------------------------- the state snapshots
\* Quota::from_gcra_parameters: the burst size is 1 + tau / t.
from_gcra_parameters(t, tau) ==
    [max_burst |-> u32_add(1, as_u32(tau \div t)), replenish_1_per |-> t]

\* StateSnapshot: the fields t, tau and tat. Gcra::test_and_update builds it
\* from (t, tau, t0, next) on Ok, so tat is the tat stored by the decision.
StateSnapshot_new(t, tau, time_of_measurement, tat) ==
    [t |-> t, tau |-> tau, tat |-> tat]

\* StateInformationMiddleware::allow returns the snapshot it is given.
StateInformationMiddleware_allow(state) == state

\* StateSnapshot::remaining_burst_capacity:
\* (quota().burst_size() + 1).saturating_sub((tat / t) as u32).
remaining_burst_capacity(state) ==
    LET burst_size == from_gcra_parameters(state.t, state.tau).max_burst
    IN  Monus(u32_add(burst_size, 1), as_u32(state.tat \div state.t))

\* What check() of a limiter with StateInformationMiddleware returned at
\* the current instant: the snapshot of an Ok outcome.
Reported ==
    remaining_burst_capacity(
        StateInformationMiddleware_allow(
            StateSnapshot_new(gcra.t, gcra.tau, last.out.time_of_measurement,
                              last.out.tat)))

InitSnapshot == Constructed /\ watch = "snapshot"

\* A direct limiter with StateInformationMiddleware, given checks.
NextSnapshot ==
    \/ check
    \/ \E by \in 1 .. MaxNow : advance(by, MaxNow)

SpecSnapshot == InitSnapshot /\ [][NextSnapshot]_vars

\* ------------------------------------------------ the quota round trip
\* One second in nanoseconds, in the width of the model: like 10^9 it is
\* below the largest u32.
Second == 8

\* Quota::per_second: max_burst cells per second, one cell replenished
\* every (1 s / max_burst) nanoseconds, rounded down.
per_second(max_burst) ==
    [max_burst |-> max_burst, replenish_1_per |-> Second \div max_burst]

\* Quota::allow_burst
allow_burst(q, max_burst) == [q EXCEPT !.max_burst = max_burst]

\* The test roundtrips_quota: the quota is turned into a Gcra and the
\* parameters of the Gcra back into a quota.
roundtrips_quota ==
    /\ calc.op = "none"
    /\ calc' = [op |-> "roundtrips_quota", ty |-> "Quota",
                a |-> quota, b |-> gcra,
                out |-> from_gcra_parameters(gcra.t, gcra.tau),
                panics |-> FALSE]
    /\ UNCHANGED << seqvars, concvars, peekvars >>
    /\ UNCHANGED << store, hasher, store_type, pipe, middleware, own, evicted,
                    klast, kthr >>

\* Quota::per_second(per_second).allow_burst(burst) for every rate and
\* burst size, and Gcra::new of it.
InitQuota ==
    /\ quota \in { allow_burst(per_second(rate), burst_size) :
                      rate \in NonZeroU32, burst_size \in NonZeroU32 }
    /\ gcra = Gcra_new(quota)
    /\ overflow_checks = FALSE
    /\ start = 0
    /\ now = 0
    /\ cell = 0
    /\ last = NoCall
    /\ denial = None
    /\ burst = NoBurst
    /\ recent = NoRecent
    /\ watch = "none"
    /\ thr = [i \in Threads |-> Idle]
    /\ spurious = 0
    /\ cell0 = 0
    /\ seqCell = 0
    /\ peeked = None
    /\ twin = None
    /\ NotKeyed

NextQuota == roundtrips_quota

SpecQuota == InitQuota /\ [][NextQuota]_vars

\* ------------------------------------------------- the clock references
\* Nanos::from(Duration): d.as_nanos().try_into().expect(..) panics for a
\* duration of more nanoseconds than a u64 holds.
Nanos_from_Duration(d) ==
    IF d >= U64Modulus THEN [nanos |-> 0, panics |-> TRUE]
    ELSE [nanos |-> d, panics |-> FALSE]

\* Faulty variant: the difference whatever the order.
checked_sub_abs(a, b) == Some(IF a >= b THEN a - b ELSE b - a)

\* Duration::checked_sub, and SystemTime::duration_since(..).ok(): the
\* difference, if the first is not the earlier one.
checked_sub(a, b) == IF a >= b THEN Some(a - b) ELSE None

\* Reference for Duration
Duration_duration_since(self, earlier) ==
    Nanos_from_Duration(unwrap_or(checked_sub(self, earlier), 0))

\* Reference for Instant
Instant_duration_since(self, earlier) ==
    IF earlier < self THEN Nanos_from_Duration(self - earlier)
    ELSE Nanos_from_Duration(0)

\* Reference for SystemTime
SystemTime_duration_since(self, earlier) ==
    Nanos_from_Duration(unwrap_or(checked_sub(self, earlier), 0))

\* Reference for QuantaInstant (a Nanos inside) and for Nanos.
QuantaInstant_duration_since(self, earlier) ==
    [nanos |-> duration_since(self, earlier), panics |-> FALSE]

\* The instant types, and the instants of each: a Duration, an Instant
\* and a SystemTime reach further than the 2^64 ns of a Nanos.
InstantTypes == {"Nanos", "QuantaInstant", "Duration", "Instant", "SystemTime"}
NearInstants == 0 .. 3
Instants(ty) ==
    IF ty \in {"Nanos", "QuantaInstant"}
    THEN NearInstants \cup {U64Modulus - 2, U64Modulus - 1}
    ELSE NearInstants \cup {U64Modulus - 1, U64Modulus, U64Modulus + 2}

\* Reference::duration_since, on the instants drawn.
Reference_duration_since ==
    /\ calc.op = "instants"
    /\ LET ty == calc.ty
           d == CASE ty = "Duration" ->
                         Duration_duration_since(calc.a, calc.b)
                  [] ty = "Instant" ->
                         Instant_duration_since(calc.a, calc.b)
                  [] ty = "SystemTime" ->
                         SystemTime_duration_since(calc.a, calc.b)
                  [] OTHER -> QuantaInstant_duration_since(calc.a, calc.b)
       IN  calc' = [calc EXCEPT !.op = "duration_since", !.out = d.nanos,
                                !.panics = d.panics]
    /\ UNCHANGED << seqvars, concvars, peekvars >>
    /\ UNCHANGED << store, hasher, store_type, pipe, middleware, own, evicted,
                    klast, kthr >>

\* Two instants of one type.
InitInstants ==
    /\ \E ty \in InstantTypes : \E a, b \in Instants(ty) :
           calc = [op |-> "instants", ty |-> ty, a |-> a, b |-> b,
                   out |-> 0, panics |-> FALSE]
    /\ quota = [max_burst |-> 1, replenish_1_per |-> 1]
    /\ gcra = Gcra_new(quota)
    /\ overflow_checks = FALSE
    /\ start = 0
    /\ now = 0
    /\ cell = 0
    /\ last = NoCall
    /\ denial = None
    /\ burst = NoBurst
    /\ recent = NoRecent
    /\ watch = "none"
    /\ thr = [i \in Threads |-> Idle]
    /\ spurious = 0
    /\ cell0 = 0
    /\ seqCell = 0
    /\ peeked = None
    /\ twin = None
    /\ store = EmptyStore
    /\ hasher = "DefaultHasher"
    /\ store_type = "HashMapStateStore"
    /\ pipe = NoPipe
    /\ middleware = "NoOpMiddleware"
    /\ own = [k \in Keys |-> 0]
    /\ evicted = {}
    /\ klast = NoKeyedCall
    /\ kthr = [i \in Threads |-> KeyedIdle]

NextInstants == Reference_duration_since

SpecInstants == InitInstants /\ [][NextInstants]_vars

\* ---------------------------------------------------- the keyed limiter
\* The quotas and clock range of the keyed specifications; all of their
\* arithmetic stays within u64.
QuotasKeyed ==
    { [max_burst |-> 1, replenish_1_per |-> 1],
      [max_burst |-> 2, replenish_1_per |-> 1],
      [max_burst |-> 2, replenish_1_per |-> 2],
      [max_burst |-> 3, replenish_1_per |-> 1] }
MaxNowKeyed == 6

\* The batch sizes of check_key_n: within and beyond the burst sizes.
KeyBatchSizes == {2, 4}

\* The multiplier of CustomHasher::finish, in the width of the model.
HashMul == 149

\* Hasher::finish after the key was written: BadHasher returns 4 whatever
\* was written; CustomHasher sums the bytes written and multiplies.
finish(h, key) ==
    IF h = "BadHasher" THEN 4 ELSE (key * HashMul) % U64Modulus

\* Faulty variant: the entry is found by its hash alone.
HashMap_find_by_hash(map, h, key) ==
    LET found == { k \in DOMAIN map : finish(h, k) = finish(h, key) }
    IN  IF found = {} THEN None ELSE Some(CHOOSE k \in found : TRUE)

\* HashMap::get / DashMap::get (K: Hash + Eq): the entry whose key has the
\* hash of `key` and is equal to it.
HashMap_find(map, h, key) ==
    LET found == { k \in DOMAIN map :
                      finish(h, k) = finish(h, key) /\ k = key }
    IN  IF found = {} THEN None ELSE Some(CHOOSE k \in found : TRUE)

\* Faulty variant: insert(key, default), which replaces a cell already there.
or_default_replaces(map, key) ==
    [k \in DOMAIN map \cup {key} |-> IF k = key THEN 0 ELSE map[k]]

\* entry(key.clone()).or_default(): a never-used cell under the key.
or_default(map, key) ==
    [k \in DOMAIN map \cup {key} |-> IF k \in DOMAIN map THEN map[k] ELSE 0]

\* The value of the key's cell; a key that is not present has none.
Stored(map, key) == IF key \in DOMAIN map THEN map[key] ELSE 0

\* Faulty variant: the quota of the key is asked of the middleware.
Gcra_by_check_quota(mw, key) ==
    IF mw = "KeyedMw" /\ key = 1
    THEN Gcra_new([max_burst |-> 3, replenish_1_per |-> 2])
    ELSE gcra

\* The Gcra that decides check_key and check_key_n: self.gcra, whatever the
\* middleware (check_quota and check_quota_n are not called).
Gcra_of_key(mw, key) == gcra

\* MW::allow: what the caller is given on Ok; None stands for ().
MW_allow(mw, key, state) ==
    IF mw = "StateInformationMiddleware"
    THEN Some(StateInformationMiddleware_allow(state))
    ELSE None

\* What the calls record: the outcome, that of the key's own cell, and the
\* cell of its own after the call.
KeyedCall(op, key, n, t0, out, payload) ==
    LET lin == Decision(op, n, t0, own[key])
    IN  /\ klast' = [op |-> op, key |-> key, n |-> n, t0 |-> t0, out |-> out,
                     lin |-> lin, payload |-> payload,
                     found |-> HashMap_find(store, hasher, key) # None,
                     before |-> EmptyStore]
        /\ own' = [own EXCEPT ![key] =
                       IF lin.kind = "Ok" /\ op \notin PeekOps
                       THEN lin.tat ELSE @]
        /\ UNCHANGED << hasher, store_type, pipe, calc, middleware, evicted >>
        /\ UNCHANGED << seqvars, concvars, peekvars >>

\* HashMapStateStore::measure_and_replace (DashMapStateStore alike) with
\* no other caller: the cell found under the key, or else a new one, is
\* given to measure_and_replace_one.
KeyedStore_measure_and_replace(map, key, out) ==
    LET v == HashMap_find(map, hasher, key)
        at == IF v = None THEN key ELSE v[1]
        entry == IF v = None THEN or_default(map, key) ELSE map
    IN  [entry EXCEPT ![at] = IF out.kind = "Ok" THEN out.tat ELSE @]

\* The value the closure of the call is run on.
KeyedStore_observed(map, key) ==
    LET v == HashMap_find(map, hasher, key)
    IN  IF v = None THEN 0 ELSE map[v[1]]

\* Faulty variant: the store is entered before the capacity is tested.
KeyedStore_after_entered_first(map, key, early, out) ==
    KeyedStore_measure_and_replace(map, key, out)

\* The store after the call: test_n_all_and_update returns
\* InsufficientCapacity before state.measure_and_replace is called.
KeyedStore_after(map, key, early, out) ==
    IF early THEN map ELSE KeyedStore_measure_and_replace(map, key, out)

\* Gcra::test_and_update and test_n_all_and_update on a keyed store, run
\* with the clock reading t0.
check_key_at(op, key, n, t0) ==
    LET g == Gcra_of_key(middleware, key)
        early == op = "check_n" /\ exceeds_capacity(g, n)
        out == DecisionBy(g, op, n, t0, KeyedStore_observed(store, key))
        payload == IF out.kind = "Ok"
                   THEN MW_allow(middleware, key,
                            StateSnapshot_new(g.t, g.tau, t0, out.tat))
                   ELSE None
    IN  /\ store' = KeyedStore_after(store, key, early, out)
        /\ KeyedCall(op, key, n, t0, out, payload)

\* RateLimiter::check_key
check_key(key) ==
    /\ check_key_at("check", key, 1, duration_since(now, start))
    /\ UNCHANGED kthr

\* RateLimiter::check_key_n
check_key_n(key, n) ==
    /\ check_key_at("check_n", key, n, duration_since(now, start))
    /\ UNCHANGED kthr

\* RateLimiter::peek_key: the decision of check_key on the key's cell, with
\* nothing stored and no cell made for a key that is not present.
peek_key(key) ==
    LET t0 == duration_since(now, start)
        out == DecisionBy(Gcra_of_key(middleware, key), "check_only", 1, t0,
                          KeyedStore_observed(store, key))
    IN  /\ store' = store
        /\ KeyedCall("check_only", key, 1, t0, out, None)
        /\ UNCHANGED kthr

\* RateLimiter::reset_key: InMemoryState::reset on the key's cell, if the
\* key is present.
reset_key(key) ==
    LET v == HashMap_find(store, hasher, key)
    IN  /\ store' = IF v = None THEN store
                    ELSE [store EXCEPT ![v[1]] = InMemoryState_reset]
        /\ klast' = [NoKeyedCall EXCEPT !.op = "reset", !.key = key]
        /\ own' = [own EXCEPT ![key] = InMemoryState_reset]
        /\ UNCHANGED << hasher, store_type, pipe, calc, middleware, evicted, kthr >>
        /\ UNCHANGED << seqvars, concvars, peekvars >>

\* Faulty variant: strictly older.
is_strictly_older_than(value, nanos) == value < nanos

\* InMemoryState::is_older_than
is_older_than(value, nanos) == value <= nanos

\* Faulty variant: the cell cost is added to the threshold.
drop_below_plus_t(reading) == Nanos_add(duration_since(reading, start), gcra.t)

\* The threshold of RateLimiter::retain_recent for a clock reading.
drop_below_of(reading) ==
    Nanos_saturating_sub(duration_since(reading, start), gcra.t)

\* HashMapStateStore::retain_recent / DashMapStateStore::retain_recent:
\* map.retain(|_, v| !v.is_older_than(drop_below)).
KeyedStore_retain_recent(map, drop_below) ==
    LET kept == { k \in DOMAIN map : ~is_older_than(map[k], drop_below) }
    IN  [k \in kept |-> map[k]]

\* RateLimiter::retain_recent
retain_recent ==
    LET drop_below == drop_below_of(now)
        kept == KeyedStore_retain_recent(store, drop_below)
    IN  /\ store' = kept
        /\ evicted' = evicted \cup (DOMAIN store \ DOMAIN kept)
        /\ klast' = [NoKeyedCall EXCEPT !.op = "retain_recent",
                                        !.t0 = duration_since(now, start),
                                        !.before = store]
        /\ UNCHANGED << hasher, store_type, pipe, calc, middleware, own, kthr >>
        /\ UNCHANGED << seqvars, concvars, peekvars >>

\* RateLimiter::hashmap_with_clock_and_hasher /
\* dashmap_with_clock_and_hasher: an empty store.
KeyedConstructedWith(ty) ==
    /\ quota \in QuotasKeyed
    /\ gcra = Gcra_new(quota)
    /\ overflow_checks = FALSE
    /\ start \in {0, 1}
    /\ now = start
    /\ cell = 0
    /\ last = NoCall
    /\ denial = None
    /\ burst = NoBurst
    /\ recent = NoRecent
    /\ watch = "none"
    /\ thr = [i \in Threads |-> Idle]
    /\ spurious = 0
    /\ cell0 = 0
    /\ seqCell = 0
    /\ peeked = None
    /\ twin = None
    /\ store = EmptyStore
    /\ store_type = ty
    /\ pipe = NoPipe
    /\ calc = NoCalc
    /\ own = [k \in Keys |-> 0]
    /\ evicted = {}
    /\ klast = NoKeyedCall
    /\ kthr = [i \in Threads |-> KeyedIdle]

KeyedConstructed == KeyedConstructedWith("HashMapStateStore")

InitKeyed ==
    /\ KeyedConstructed
    /\ hasher \in {"BadHasher", "CustomHasher"}
    /\ middleware = "NoOpMiddleware"

\* The calls on keys, without eviction.
NextKeyed ==
    \/ \E key \in Keys : check_key(key)
    \/ \E key \in Keys, n \in KeyBatchSizes : check_key_n(key, n)
    \/ \E key \in Keys : peek_key(key)
    \/ \E key \in Keys : reset_key(key)
    \/ \E by \in 1 .. MaxNowKeyed : advance(by, MaxNowKeyed)

SpecKeyed == InitKeyed /\ [][NextKeyed]_vars

InitEvict ==
    /\ KeyedConstructed
    /\ hasher = "CustomHasher"
    /\ middleware = "NoOpMiddleware"

\* The calls on keys and the eviction.
NextEvict ==
    \/ \E key \in Keys : check_key(key)
    \/ \E key \in Keys, n \in KeyBatchSizes : check_key_n(key, n)
    \/ \E key \in Keys : peek_key(key)
    \/ retain_recent
    \/ \E by \in 1 .. MaxNowKeyed : advance(by, MaxNowKeyed)

SpecEvict == InitEvict /\ [][NextEvict]_vars

InitMiddleware ==
    /\ KeyedConstructed
    /\ hasher = "CustomHasher"
    /\ middleware \in {"NoOpMiddleware", "StateInformationMiddleware",
                        "KeyedMw"}

NextMiddleware ==
    \/ \E key \in Keys : check_key(key)
    \/ \E key \in Keys, n \in KeyBatchSizes : check_key_n(key, n)
    \/ \E by \in 1 .. MaxNowKeyed : advance(by, MaxNowKeyed)

SpecMiddleware == InitMiddleware /\ [][NextMiddleware]_vars

\* ------------------------------------------ eviction among keyed callers
\* check_key: self.clock.now() is read before the store is entered.
now_check_key(i, key) ==
    /\ kthr[i].pc = "idle"
    /\ kthr' = [kthr EXCEPT ![i].pc = "read", ![i].op = "check",
                            ![i].key = key, ![i].reading = now]
    /\ UNCHANGED << store, hasher, store_type, pipe, calc, middleware, own, evicted, klast >>
    /\ UNCHANGED << seqvars, concvars, peekvars >>

\* check_key: measure_and_replace holds the lock of the map (the shard
\* lock of the DashMap) while the key's cell is decided on.
measure_check_key(i) ==
    /\ kthr[i].pc = "read" /\ kthr[i].op = "check"
    /\ check_key_at("check", kthr[i].key, 1,
                    duration_since(kthr[i].reading, start))
    /\ kthr' = [kthr EXCEPT ![i].pc = "done", ![i].out = klast'.out,
                            ![i].lin = klast'.lin]

\* retain_recent: let now = self.clock.now().
now_retain_recent(i) ==
    /\ kthr[i].pc = "idle"
    /\ kthr' = [kthr EXCEPT ![i].pc = "read", ![i].op = "retain_recent",
                            ![i].reading = now]
    /\ UNCHANGED << store, hasher, store_type, pipe, calc, middleware, own, evicted, klast >>
    /\ UNCHANGED << seqvars, concvars, peekvars >>

\* retain_recent: self.state.retain_recent(drop_below) under the lock of
\* the map.
state_retain_recent(i) ==
    /\ kthr[i].pc = "read" /\ kthr[i].op = "retain_recent"
    /\ LET kept == KeyedStore_retain_recent(store,
                                            drop_below_of(kthr[i].reading))
       IN  /\ store' = kept
           /\ evicted' = evicted \cup (DOMAIN store \ DOMAIN kept)
    /\ kthr' = [kthr EXCEPT ![i].pc = "done"]
    /\ klast' = NoKeyedCall
    /\ UNCHANGED << hasher, store_type, pipe, calc, middleware, own >>
    /\ UNCHANGED << seqvars, concvars, peekvars >>

\* A call of check_key made while no thread is in a call.
check_key_alone(key) ==
    /\ \A i \in Threads : kthr[i].pc = "idle"
    /\ check_key(key)

InitEvictRace == InitEvict

NextEvictRace ==
    \/ \E key \in Keys : check_key_alone(key)
    \/ \E i \in Threads, key \in Keys : now_check_key(i, key)
    \/ \E i \in Threads : measure_check_key(i)
    \/ \E i \in Threads : now_retain_recent(i)
    \/ \E i \in Threads : state_retain_recent(i)
    \/ \E by \in 1 .. MaxNowKeyed : advance(by, MaxNowKeyed)

SpecEvictRace == InitEvictRace /\ [][NextEvictRace]_vars

\* ------------------------------------- the limiter of src/src/gcra.rs
\* Gcra::new of src/src/gcra.rs: tau = replenish_1_per * max_burst.
Legacy_Gcra_new(q) ==
    [t |-> q.replenish_1_per,
     tau |-> Nanos_mul(q.replenish_1_per, q.max_burst)]

\* Gcra::starting_state
Legacy_starting_state(g, t0) == Nanos_add(t0, g.t)

\* The closure of Gcra::test_and_update of src/src/gcra.rs.
Legacy_test_and_update(g, t0, prev) ==
    LET tat == unwrap_or(prev, Legacy_starting_state(g, t0))
        earliest_time == Nanos_saturating_sub(tat, g.tau)
    IN  IF t0 < earliest_time
        THEN Disallow(earliest_time, FALSE)
        ELSE Allow(1, t0, Nanos_add(Max(tat, t0), g.t),
                   Nanos_add_overflows(Max(tat, t0), g.t))

\* RateLimiter::check on that limiter.
Legacy_check ==
    LET t0 == duration_since(now, start)
    IN  Record("check", 1, t0,
               Outcome(Legacy_test_and_update(gcra, t0, NonZeroU64_new(cell))))

\* The quotas of that limiter.
QuotasLegacy ==
    { [max_burst |-> 1, replenish_1_per |-> 1],
      [max_burst |-> 2, replenish_1_per |-> 1],
      [max_burst |-> 2, replenish_1_per |-> 2],
      [max_burst |-> 3, replenish_1_per |-> 2] }

InitLegacy ==
    /\ quota \in QuotasLegacy
    /\ gcra = Legacy_Gcra_new(quota)
    /\ overflow_checks \in BOOLEAN
    /\ start \in {0, 1}
    /\ now = start
    /\ cell = 0
    /\ last = NoCall
    /\ denial = None
    /\ burst = NoBurst
    /\ recent = NoRecent
    /\ watch = "snapshot"
    /\ thr = [i \in Threads |-> Idle]
    /\ spurious = 0
    /\ cell0 = 0
    /\ seqCell = 0
    /\ peeked = None
    /\ twin = None
    /\ NotKeyed

NextLegacy ==
    \/ Legacy_check
    \/ \E by \in 1 .. MaxNow : advance(by, MaxNow)

SpecLegacy == InitLegacy /\ [][NextLegacy]_vars

\* ------------------------------------------------------ concurrent callers
\* The quotas of the concurrent specification.
QuotasConc ==
    { [max_burst |-> 1, replenish_1_per |-> 1],
      [max_burst |-> 2, replenish_1_per |-> 1],
      [max_burst |-> 3, replenish_1_per |-> 2] }

\* The batch sizes of the concurrent calls.
BatchSizes == {2}

\* The decision closure of a call, run on an observed cell value.
closure(op, n, t0, value) ==
    CASE op = "check" ->
             test_and_update(gcra, t0, NonZeroU64_new(value))
      [] op = "check_n" ->
             test_n_all_closure(gcra, n, t0, NonZeroU64_new(value))
      [] op = "check_any_n" ->
             test_any_n_and_update(gcra, n, t0, NonZeroU64_new(value))

\* A whole call made alone on a cell holding `value`.
Alone(op, n, t0, value) ==
    CASE op = "check" ->
             Outcome(test_and_update(gcra, t0, NonZeroU64_new(value)))
      [] op = "check_n" ->
             test_n_all_and_update(gcra, n, t0, NonZeroU64_new(value))
      [] op = "check_any_n" ->
             Outcome(test_any_n_and_update(gcra, n, t0, NonZeroU64_new(value)))

\* The sequential replay: the call takes effect, alone, on seqCell.  The
\* value that the compare-exchange finds in the cell, and replaces, is
\* kept.
Replay(i, out) ==
    LET me == thr[i]
        lin == Alone(me.op, me.n, me.t0, seqCell)
    IN  /\ seqCell' = IF lin.kind = "Ok" THEN lin.tat ELSE seqCell
        /\ thr' = [thr EXCEPT ![i].pc = "done", ![i].out = out, ![i].lin = lin,
                              ![i].seen = me.prev, ![i].replaced = cell]

\* Faulty variant: the value a failed compare-exchange returns is dropped.
next_prev_dropped(current, prev) == prev

\* Err(next_prev) => prev = next_prev: the value found in the cell.
next_prev(current, prev) == current

\* Faulty variant: a store that does not compare.
compare_exchange_blind(current, expected) == TRUE

\* AtomicU64::compare_exchange_weak succeeds only on the expected value.
compare_exchange_matches(current, expected) == current = expected

\* The thread has observed `value` in the cell (by the load, or as the
\* value a failed compare-exchange returned) and runs the closure on it: an
\* Err decision ends the loop and is returned.
Observe(i, value, failed) ==
    LET me == thr[i]
        decision == Outcome(closure(me.op, me.n, me.t0, value))
        seen == [thr EXCEPT ![i].prev = value, ![i].pc = "cas",
                            ![i].retried = @ \/ failed]
    IN  IF decision.kind = "Ok"
        THEN thr' = seen /\ seqCell' = seqCell
        ELSE LET lin == Alone(me.op, me.n, me.t0, seqCell)
             IN  /\ seqCell' = IF lin.kind = "Ok" THEN lin.tat ELSE seqCell
                 /\ thr' = [seen EXCEPT ![i].pc = "done", ![i].out = decision,
                                        ![i].lin = lin]

\* The threads are alike: they make their calls in the order of their
\* indices.
MayCall(i) ==
    /\ thr[i].pc = "idle"
    /\ IF i = 1 THEN TRUE ELSE thr[i - 1].pc # "idle"

Frame == UNCHANGED << quota, gcra, overflow_checks, start, now, last, denial,
                      burst, recent, watch, cell0, peeked, twin, store,
                      hasher, store_type, pipe, calc, middleware, own, evicted, klast, kthr >>

\* RateLimiter::check up to the call of measure_and_replace_one.
call_check(i) ==
    /\ MayCall(i)
    /\ thr' = [thr EXCEPT ![i].pc = "load", ![i].op = "check", ![i].n = 1,
                          ![i].t0 = duration_since(now, start)]
    /\ UNCHANGED << cell, spurious, seqCell >>
    /\ Frame

\* RateLimiter::check_n up to the call of measure_and_replace_one: the
\* capacity test comes before the cell is read.
call_check_n(i, n) ==
    /\ MayCall(i)
    /\ LET called == [thr EXCEPT ![i].pc = "load", ![i].op = "check_n",
                                 ![i].n = n,
                                 ![i].t0 = duration_since(now, start)]
           early == IF Nanos_mul_overflows(gcra.t, n - 1) /\ overflow_checks
                    THEN Panicked
                    ELSE InsufficientCapacity(burst_capacity(gcra))
       IN  IF \/ Nanos_mul_overflows(gcra.t, n - 1) /\ overflow_checks
              \/ exceeds_capacity(gcra, n)
           THEN thr' = [called EXCEPT ![i].pc = "done", ![i].out = early,
                                     ![i].lin = Alone("check_n", n,
                                                      called[i].t0, seqCell)]
           ELSE thr' = called
    /\ UNCHANGED << cell, spurious, seqCell >>
    /\ Frame

\* RateLimiter::check_any_n up to the call of measure_and_replace_one.
call_check_any_n(i, n) ==
    /\ MayCall(i)
    /\ thr' = [thr EXCEPT ![i].pc = "load", ![i].op = "check_any_n",
                          ![i].n = n, ![i].t0 = duration_since(now, start)]
    /\ UNCHANGED << cell, spurious, seqCell >>
    /\ Frame

\* measure_and_replace_one: the load and the first run of the closure.
load(i) ==
    /\ thr[i].pc = "load"
    /\ Observe(i, cell, FALSE)
    /\ UNCHANGED << cell, spurious >>
    /\ Frame

\* measure_and_replace_one: the compare-exchange succeeds and the call
\* returns the Ok decision.
cas_ok(i) ==
    /\ thr[i].pc = "cas"
    /\ compare_exchange_matches(cell, thr[i].prev)
    /\ LET decision ==
               Outcome(closure(thr[i].op, thr[i].n, thr[i].t0, thr[i].prev))
       IN  /\ cell' = decision.tat
           /\ Replay(i, decision)
    /\ UNCHANGED spurious
    /\ Frame

\* measure_and_replace_one: the compare-exchange fails because the cell no
\* longer holds the expected value; the closure runs again on the value
\* found.
cas_fail(i) ==
    /\ thr[i].pc = "cas"
    /\ ~compare_exchange_matches(cell, thr[i].prev)
    /\ Observe(i, next_prev(cell, thr[i].prev), TRUE)
    /\ UNCHANGED << cell, spurious >>
    /\ Frame

\* measure_and_replace_one: compare_exchange_weak fails although the cell
\* holds the expected value.
cas_fail_spurious(i) ==
    /\ thr[i].pc = "cas"
    /\ cell = thr[i].prev
    /\ spurious < MaxSpurious
    /\ spurious' = spurious + 1
    /\ Observe(i, cell, TRUE)
    /\ UNCHANGED cell
    /\ Frame

\* The tat stored after k cells were admitted one by one at offset 0.
RECURSIVE AfterChecks(_, _)
AfterChecks(g, k) ==
    IF k = 0 THEN 0
    ELSE test_and_update(g, 0, NonZeroU64_new(AfterChecks(g, k - 1))).tat

\* The limiter was constructed at clock reading 0 and has admitted some
\* cells at that instant; the clock has been advanced since, and the
\* threads are about to call.
Init ==
    /\ quota \in QuotasConc
    /\ gcra = Gcra_new(quota)
    /\ overflow_checks = FALSE
    /\ start = 0
    /\ now \in 0 .. MaxNowConc
    /\ cell \in { AfterChecks(gcra, k) : k \in 0 .. quota.max_burst }
    /\ last = NoCall
    /\ denial = None
    /\ burst = NoBurst
    /\ recent = NoRecent
    /\ watch = "none"
    /\ thr = [i \in Threads |-> Idle]
    /\ spurious = 0
    /\ cell0 = cell
    /\ seqCell = cell
    /\ peeked = None
    /\ twin = None
    /\ NotKeyed

Next ==
    \/ \E i \in Threads : call_check(i)
    \/ \E i \in Threads, n \in BatchSizes : call_check_n(i, n)
    \/ \E i \in Threads, n \in BatchSizes : call_check_any_n(i, n)
    \/ \E i \in Threads : load(i)
    \/ \E i \in Threads : cas_ok(i)
    \/ \E i \in Threads : cas_fail(i)
    \/ \E i \in Threads : cas_fail_spurious(i)
    \/ \E by \in 1 .. MaxNowConc : advance(by, MaxNowConc)

Spec == Init /\ [][Next]_vars

\* The steps of thread i inside measure_and_replace_one.
InLoop(i) == thr[i].pc \in {"load", "cas"}
LoopStep(i) ==
    load(i) \/ cas_ok(i) \/ cas_fail(i) \/ cas_fail_spurious(i)

\* The calls and their loops while the clock stands still.
NextLive ==
    \/ \E i \in Threads : call_check(i)
    \/ \E i \in Threads, n \in BatchSizes : call_check_n(i, n)
    \/ \E i \in Threads, n \in BatchSizes : call_check_any_n(i, n)
    \/ \E i \in Threads : load(i)
    \/ \E i \in Threads : cas_ok(i)
    \/ \E i \in Threads : cas_fail(i)
    \/ \E i \in Threads : cas_fail_spurious(i)

InitLive == Init /\ now = 0

\* As long as a thread is inside the loop, some thread inside the loop is
\* scheduled: the loop takes no lock and waits for nothing.
SpecLive ==
    /\ InitLive
    /\ [][NextLive]_vars
    /\ WF_vars(\E i \in Threads : LoopStep(i))

\* ------------------------------------------- peeks among concurrent callers
\* RateLimiter::check_only up to the call of measure_and_peek_one.
call_check_only(i) ==
    /\ MayCall(i)
    /\ thr' = [thr EXCEPT ![i].pc = "peek_load", ![i].op = "check_only",
                          ![i].n = 1, ![i].t0 = duration_since(now, start)]
    /\ UNCHANGED << cell, spurious, seqCell >>
    /\ Frame

\* The peeking thread has observed `value` and runs the closure on it: an
\* Err decision ends the loop and is returned with nothing stored.
\* original_prev is assigned once, from the first load; a failed
\* compare-exchange updates prev only.
PeekObserve(i, value, failed) ==
    LET me == thr[i]
        decision == Outcome(closure("check", me.n, me.t0, value))
        seen == [thr EXCEPT ![i].prev = value, ![i].pc = "peek_cas",
                            ![i].original_prev = IF failed THEN @ ELSE value,
                            ![i].retried = @ \/ failed]
    IN  IF decision.kind = "Ok"
        THEN thr' = seen
        ELSE thr' = [seen EXCEPT ![i].pc = "done", ![i].out = decision]

\* measure_and_peek_one: the load, original_prev and the first run of the
\* closure.
peek_load(i) ==
    /\ thr[i].pc = "peek_load"
    /\ PeekObserve(i, cell, FALSE)
    /\ UNCHANGED << cell, spurious, seqCell >>
    /\ Frame

\* measure_and_peek_one: the compare-exchange succeeds and the new tat is
\* in the cell until the store that follows.
peek_cas_ok(i) ==
    /\ thr[i].pc = "peek_cas"
    /\ compare_exchange_matches(cell, thr[i].prev)
    /\ LET decision == Outcome(closure("check", thr[i].n, thr[i].t0, thr[i].prev))
       IN  /\ cell' = decision.tat
           /\ thr' = [thr EXCEPT ![i].pc = "peek_store", ![i].out = decision]
    /\ UNCHANGED << spurious, seqCell >>
    /\ Frame

\* measure_and_peek_one: the compare-exchange fails; prev becomes the value
\* found and the closure runs again.
peek_cas_fail(i) ==
    /\ thr[i].pc = "peek_cas"
    /\ ~compare_exchange_matches(cell, thr[i].prev)
    /\ PeekObserve(i, cell, TRUE)
    /\ UNCHANGED << cell, spurious, seqCell >>
    /\ Frame

\* measure_and_peek_one: self.0.store(original_prev) and the return.
peek_store(i) ==
    /\ thr[i].pc = "peek_store"
    /\ cell' = thr[i].original_prev
    /\ thr' = [thr EXCEPT ![i].pc = "done"]
    /\ UNCHANGED << spurious, seqCell >>
    /\ Frame

InitRace == Init

NextRace ==
    \/ \E i \in Threads : call_check(i)
    \/ \E i \in Threads : call_check_only(i)
    \/ \E i \in Threads : load(i)
    \/ \E i \in Threads : cas_ok(i)
    \/ \E i \in Threads : cas_fail(i)
    \/ \E i \in Threads : peek_load(i)
    \/ \E i \in Threads : peek_cas_ok(i)
    \/ \E i \in Threads : peek_cas_fail(i)
    \/ \E i \in Threads : peek_store(i)
    \/ \E by \in 1 .. MaxNowConc : advance(by, MaxNowConc)

SpecRace == InitRace /\ [][NextRace]_vars

\* ------------------------------------- first calls for a key among threads
\* The calls of check_key that return to a thread that calls again.
MaxReturns == 1

\* HashMapStateStore::measure_and_replace: the whole call holds the mutex
\* of the map.
HashMap_measure_and_replace(i) ==
    /\ store_type = "HashMapStateStore"
    /\ measure_check_key(i)

\* Whether another thread holds a reference into the map for the key.
Referenced(i, key) ==
    \E j \in Threads \ {i} : kthr[j].key = key /\ kthr[j].pc \in {"load", "cas"}

\* The closure of the call of thread i run on `value`: an Err is returned at
\* once, an Ok is taken to the compare-exchange.
KeyedObserve(i, value) ==
    LET key == kthr[i].key
        t0 == duration_since(kthr[i].reading, start)
        out == DecisionBy(Gcra_of_key(middleware, key), "check", 1, t0, value)
    IN  IF out.kind = "Ok"
        THEN /\ kthr' = [kthr EXCEPT ![i].pc = "cas", ![i].prev = value]
             /\ UNCHANGED << store, hasher, store_type, pipe, calc, middleware, own,
                             evicted, klast >>
             /\ UNCHANGED << seqvars, concvars, peekvars >>
        ELSE /\ store' = store
             /\ KeyedCall("check", key, 1, t0, out, None)
             /\ kthr' = [kthr EXCEPT ![i].pc = "done", ![i].out = out,
                                     ![i].lin = klast'.lin]

\* DashMapStateStore::measure_and_replace, self.get(key): the fast path
\* keeps a shared reference to the entry, a miss keeps nothing.
DashMap_get(i) ==
    /\ store_type = "DashMapStateStore"
    /\ kthr[i].pc = "read" /\ kthr[i].op = "check"
    /\ LET v == HashMap_find(store, hasher, kthr[i].key)
       IN  kthr' = [kthr EXCEPT ![i].pc = IF v = None THEN "entry" ELSE "load",
                                ![i].found = v # None]
    /\ UNCHANGED << store, hasher, store_type, pipe, calc, middleware, own,
                    evicted, klast >>
    /\ UNCHANGED << seqvars, concvars, peekvars >>

\* measure_and_replace_one through the shared reference: the load.
DashMap_load(i) ==
    /\ kthr[i].pc = "load"
    /\ KeyedObserve(i, store[kthr[i].key])

\* ... the compare-exchange that succeeds,
DashMap_cas_ok(i) ==
    LET key == kthr[i].key
        t0 == duration_since(kthr[i].reading, start)
        out == DecisionBy(Gcra_of_key(middleware, key), "check", 1, t0,
                          kthr[i].prev)
    IN  /\ kthr[i].pc = "cas"
        /\ compare_exchange_matches(store[key], kthr[i].prev)
        /\ store' = [store EXCEPT ![key] = out.tat]
        /\ KeyedCall("check", key, 1, t0, out, None)
        /\ kthr' = [kthr EXCEPT ![i].pc = "done", ![i].out = out,
                                ![i].lin = klast'.lin]

\* ... the compare-exchange that fails on a changed cell,
DashMap_cas_fail(i) ==
    /\ kthr[i].pc = "cas"
    /\ store[kthr[i].key] # kthr[i].prev
    /\ KeyedObserve(i, next_prev(store[kthr[i].key], kthr[i].prev))

\* ... and the one that fails spuriously.
DashMap_cas_fail_spurious(i) ==
    /\ kthr[i].pc = "cas"
    /\ store[kthr[i].key] = kthr[i].prev
    /\ spurious < MaxSpurious
    /\ spurious' = spurious + 1
    /\ UNCHANGED << thr, cell0, seqCell >>
    /\ UNCHANGED << seqvars, peekvars, keyedvars >>

\* self.entry(key.clone()).or_default() and measure_and_replace_one on the
\* entry: the exclusive reference is given once no other reference to the
\* entry is held, and is kept until the call returns.
DashMap_entry(i) ==
    LET key == kthr[i].key
        t0 == duration_since(kthr[i].reading, start)
        entry == or_default(store, key)
        out == DecisionBy(Gcra_of_key(middleware, key), "check", 1, t0,
                          entry[key])
    IN  /\ kthr[i].pc = "entry"
        /\ ~Referenced(i, key)
        /\ store' = [entry EXCEPT ![key] =
                         IF out.kind = "Ok" THEN out.tat ELSE @]
        /\ KeyedCall("check", key, 1, t0, out, None)
        /\ kthr' = [kthr EXCEPT ![i].pc = "done", ![i].out = out,
                                ![i].lin = klast'.lin]

\* The calls that have returned to their threads.
RECURSIVE SumOver(_, _)
SumOver(S, f) ==
    IF S = {} THEN 0
    ELSE LET i == CHOOSE j \in S : TRUE
         IN  f[i] + SumOver(S \ {i}, f)
Returned ==
    SumOver(Threads, [i \in Threads |-> kthr[i].calls[1] + kthr[i].calls[2]])

\* The call of thread i returns; the thread counts its calls and those that
\* were admitted, and may call again.
check_key_returns(i) ==
    LET key == kthr[i].key
    IN  /\ kthr[i].pc = "done"
        /\ Returned < MaxReturns
        /\ kthr' = [kthr EXCEPT
                        ![i].pc = "idle",
                        ![i].calls[key] = @ + 1,
                        ![i].admitted[key] =
                            IF kthr[i].out.kind = "Ok" THEN @ + 1 ELSE @]
        /\ UNCHANGED << store, hasher, store_type, pipe, calc, middleware, own,
                        evicted, klast >>
        /\ UNCHANGED << seqvars, concvars, peekvars >>

\* A limiter on either store, never used, its clock standing still.
InitFirstCalls ==
    /\ \E ty \in {"HashMapStateStore", "DashMapStateStore"} :
           KeyedConstructedWith(ty)
    /\ start = 0
    /\ hasher = "CustomHasher"
    /\ middleware = "NoOpMiddleware"

\* Every thread calls check_key once.
NextFirstCalls ==
    \/ \E i \in Threads, key \in Keys : now_check_key(i, key)
    \/ \E i \in Threads : HashMap_measure_and_replace(i)
    \/ \E i \in Threads : DashMap_get(i)
    \/ \E i \in Threads : DashMap_entry(i)
    \/ \E i \in Threads : DashMap_load(i)
    \/ \E i \in Threads : DashMap_cas_ok(i)
    \/ \E i \in Threads : DashMap_cas_fail(i)
    \/ \E i \in Threads : DashMap_cas_fail_spurious(i)
    \/ \E i \in Threads : check_key_returns(i)

SpecFirstCalls == InitFirstCalls /\ [][NextFirstCalls]_vars

\* -------------------------------------------- the fake clock among threads
\* The amounts the clones of the clock are advanced by.
AdvanceBy == {1, 2}

ClockFrame == UNCHANGED << quota, gcra, overflow_checks, start, cell, last,
                           denial, burst, recent, watch, cell0, peeked, twin,
                           store, hasher, store_type, pipe, calc, middleware, own, evicted,
                           klast, kthr >>

\* FakeRelativeClock::advance on a clone of the clock, up to the load.
call_advance(i, by) ==
    /\ MayCall(i)
    /\ thr' = [thr EXCEPT ![i].pc = "clock_load", ![i].op = "advance",
                          ![i].n = by]
    /\ UNCHANGED << now, spurious, seqCell >>
    /\ ClockFrame

\* advance: prev = self.now.load(Acquire), next = prev + by.
clock_load(i) ==
    /\ thr[i].pc = "clock_load"
    /\ thr' = [thr EXCEPT ![i].pc = "clock_cas", ![i].prev = now]
    /\ UNCHANGED << now, spurious, seqCell >>
    /\ ClockFrame

\* advance: the compare-exchange succeeds and the loop ends.  The replay
\* adds the amount to its own counter.
clock_cas_ok(i) ==
    /\ thr[i].pc = "clock_cas"
    /\ compare_exchange_matches(now, thr[i].prev)
    /\ now' = Nanos_add(thr[i].prev, thr[i].n)
    /\ seqCell' = seqCell + thr[i].n
    /\ thr' = [thr EXCEPT ![i].pc = "done"]
    /\ UNCHANGED spurious
    /\ ClockFrame

\* advance: the compare-exchange fails on a counter that was advanced
\* meanwhile: prev = next_prev, next = prev + by.
clock_cas_fail(i) ==
    /\ thr[i].pc = "clock_cas"
    /\ ~compare_exchange_matches(now, thr[i].prev)
    /\ thr' = [thr EXCEPT ![i].prev = now, ![i].retried = TRUE]
    /\ UNCHANGED << now, spurious, seqCell >>
    /\ ClockFrame

\* advance: compare_exchange_weak fails although the counter holds the
\* expected value.
clock_cas_fail_spurious(i) ==
    /\ thr[i].pc = "clock_cas"
    /\ now = thr[i].prev
    /\ spurious < MaxSpurious
    /\ spurious' = spurious + 1
    /\ thr' = [thr EXCEPT ![i].retried = TRUE]
    /\ UNCHANGED << now, seqCell >>
    /\ ClockFrame

\* FakeRelativeClock::now on a clone of the clock.
clock_now(i) ==
    /\ MayCall(i)
    /\ thr' = [thr EXCEPT ![i].pc = "done", ![i].op = "now", ![i].seen = now]
    /\ UNCHANGED << now, spurious, seqCell >>
    /\ ClockFrame

\* Clones of one FakeRelativeClock (they hold the same Arc<AtomicU64>),
\* one per thread; the clock has been advanced to some reading before.
InitClock ==
    /\ quota = [max_burst |-> 1, replenish_1_per |-> 1]
    /\ gcra = Gcra_new(quota)
    /\ overflow_checks = FALSE
    /\ start = 0
    /\ now \in 0 .. MaxNowConc
    /\ cell = 0
    /\ last = NoCall
    /\ denial = None
    /\ burst = NoBurst
    /\ recent = NoRecent
    /\ watch = "none"
    /\ thr = [i \in Threads |-> Idle]
    /\ spurious = 0
    /\ cell0 = 0
    /\ seqCell = now
    /\ peeked = None
    /\ twin = None
    /\ NotKeyed

NextClock ==
    \/ \E i \in Threads, by \in AdvanceBy : call_advance(i, by)
    \/ \E i \in Threads : clock_load(i)
    \/ \E i \in Threads : clock_cas_ok(i)
    \/ \E i \in Threads : clock_cas_fail(i)
    \/ \E i \in Threads : clock_cas_fail_spurious(i)
    \/ \E i \in Threads : clock_now(i)

SpecClock == InitClock /\ [][NextClock]_vars

\* --------------------------------------------------- the rate-limited sink
\* What a step of a sink, stream or future leaves alone: all but the
\* limiter's cell and the combinator itself.
PipeFrame ==
    /\ UNCHANGED << quota, gcra, overflow_checks, start, now, last, denial,
                    burst, recent, watch >>
    /\ UNCHANGED << concvars, peekvars >>
    /\ UNCHANGED << store, hasher, store_type, calc, middleware, own, evicted,
                    klast, kthr >>

\* The additional delays a Jitter may give; Jitter::NONE gives 0.
Jitters == {0, 1}

\* self.limiter.check() of the limiter the sink or stream was made on.
Pipe_limiter_check ==
    Outcome(Legacy_test_and_update(gcra, duration_since(now, start),
                                   NonZeroU64_new(cell)))

\* Faulty variant: start_send leaves the state Ready.
State_after_start_send_kept == "Ready"

\* RatelimitedSink::start_send: self.state = State::NotReady.
State_after_start_send == "NotReady"

\* The caller polls the sink: poll_ready is entered.
Sink_poll_ready ==
    /\ pipe.kind = "sink" /\ pipe.pc = "idle" /\ pipe.result # "Panic"
    /\ pipe' = [pipe EXCEPT !.pc = "loop", !.result = "none"]
    /\ cell' = cell
    /\ PipeFrame

\* poll_ready in State::NotReady: the limiter is checked; an admitted check
\* makes the state Ready, a denial resets the delay to the earliest instant.
Sink_NotReady(jitter) ==
    LET out == Pipe_limiter_check
    IN  /\ pipe.kind = "sink" /\ pipe.pc = "loop" /\ pipe.state = "NotReady"
        /\ jitter <= pipe.jitter
        /\ cell' = IF out.kind = "Ok" THEN out.tat ELSE cell
        /\ pipe' = IF out.kind = "Ok"
                   THEN [pipe EXCEPT !.state = "Ready",
                                     !.checks = @ + 1, !.admitted = @ + 1]
                   ELSE [pipe EXCEPT !.pc = "delay", !.checks = @ + 1,
                                     !.deadline =
                                         jitter + earliest_possible(out)]
        /\ PipeFrame

\* ... and the delay just reset is polled: Pending makes the state Wait and
\* returns, Ready goes round the loop.
Sink_NotReady_delay ==
    /\ pipe.kind = "sink" /\ pipe.pc = "delay"
    /\ pipe' = IF now < pipe.deadline
               THEN [pipe EXCEPT !.state = "Wait", !.pc = "idle",
                                 !.result = "Pending"]
               ELSE [pipe EXCEPT !.pc = "loop"]
    /\ cell' = cell
    /\ PipeFrame

\* poll_ready in State::Wait: the delay is polled.
Sink_Wait ==
    /\ pipe.kind = "sink" /\ pipe.pc = "loop" /\ pipe.state = "Wait"
    /\ pipe' = IF now < pipe.deadline
               THEN [pipe EXCEPT !.pc = "idle", !.result = "Pending"]
               ELSE [pipe EXCEPT !.state = "NotReady"]
    /\ cell' = cell
    /\ PipeFrame

\* poll_ready in State::Ready: whatever the inner sink's poll_ready says.
Sink_Ready(inner) ==
    /\ pipe.kind = "sink" /\ pipe.pc = "loop" /\ pipe.state = "Ready"
    /\ pipe' = [pipe EXCEPT !.pc = "idle", !.result = inner]
    /\ cell' = cell
    /\ PipeFrame

\* RatelimitedSink::start_send, called between polls whether or not the
\* sink said it was ready: outside State::Ready it panics (unreachable!),
\* in State::Ready the item goes to the inner sink.
Sink_start_send ==
    /\ pipe.kind = "sink" /\ pipe.pc = "idle" /\ pipe.result # "Panic"
    /\ pipe' = IF pipe.state = "Ready"
               THEN [pipe EXCEPT !.state = State_after_start_send,
                                 !.passed = Append(@, Len(@) + 1),
                                 !.result = "none"]
               ELSE [pipe EXCEPT !.result = "Panic"]
    /\ cell' = cell
    /\ PipeFrame

\* A sink made on a never-used limiter: RatelimitedSink::new.
InitSink ==
    /\ quota \in QuotasLegacy
    /\ gcra = Legacy_Gcra_new(quota)
    /\ overflow_checks = FALSE
    /\ start = 0
    /\ now = 0
    /\ cell = 0
    /\ last = NoCall
    /\ denial = None
    /\ burst = NoBurst
    /\ recent = NoRecent
    /\ watch = "none"
    /\ thr = [i \in Threads |-> Idle]
    /\ spurious = 0
    /\ cell0 = 0
    /\ seqCell = 0
    /\ peeked = None
    /\ twin = None
    /\ \E jitter \in Jitters :
           NotKeyedWith([NoPipe EXCEPT !.kind = "sink", !.state = "NotReady",
                                       !.jitter = jitter])

NextSink ==
    \/ Sink_poll_ready
    \/ \E jitter \in Jitters : Sink_NotReady(jitter)
    \/ Sink_NotReady_delay
    \/ Sink_Wait
    \/ \E inner \in {"Ready", "Pending"} : Sink_Ready(inner)
    \/ Sink_start_send
    \/ \E by \in 1 .. MaxNow : advance(by, MaxNow)

SpecSink == InitSink /\ [][NextSink]_vars

\* ------------------------------------------------- the rate-limited stream
\* Faulty variant: the inner stream is read on while an item is held.
State_after_item_kept == "ReadInner"

\* RatelimitedStream::poll_next: self.state = State::NotReady once the inner
\* stream has given an item.
State_after_item == "NotReady"

\* The caller polls the stream: poll_next is entered.
Stream_poll_next ==
    /\ pipe.kind = "stream" /\ pipe.pc = "idle" /\ pipe.result # "None"
    /\ pipe' = [pipe EXCEPT !.pc = "loop", !.result = "none"]
    /\ cell' = cell
    /\ PipeFrame

\* poll_next in State::ReadInner: the inner stream is polled; its items are
\* numbered in the order it produces them.
Stream_ReadInner(inner) ==
    /\ pipe.kind = "stream" /\ pipe.pc = "loop" /\ pipe.state = "ReadInner"
    /\ pipe' = IF inner = "Some"
               THEN [pipe EXCEPT !.buf = pipe.produced + 1,
                                 !.produced = @ + 1,
                                 !.state = State_after_item]
               ELSE [pipe EXCEPT !.pc = "idle", !.result = inner]
    /\ cell' = cell
    /\ PipeFrame

\* poll_next in State::NotReady: the limiter is checked; an admitted check
\* yields the item held, a denial resets the delay to the earliest instant.
Stream_NotReady(jitter) ==
    LET out == Pipe_limiter_check
    IN  /\ pipe.kind = "stream" /\ pipe.pc = "loop"
        /\ pipe.state = "NotReady"
        /\ jitter <= pipe.jitter
        /\ cell' = IF out.kind = "Ok" THEN out.tat ELSE cell
        /\ pipe' = IF out.kind = "Ok"
                   THEN [pipe EXCEPT !.state = "ReadInner", !.pc = "idle",
                                     !.passed = Append(@, pipe.buf),
                                     !.buf = 0, !.result = "Some",
                                     !.checks = @ + 1, !.admitted = @ + 1]
                   ELSE [pipe EXCEPT !.pc = "delay", !.checks = @ + 1,
                                     !.deadline =
                                         jitter + earliest_possible(out)]
        /\ PipeFrame

\* ... and the delay just reset is polled.
Stream_NotReady_delay ==
    /\ pipe.kind = "stream" /\ pipe.pc = "delay"
    /\ pipe' = IF now < pipe.deadline
               THEN [pipe EXCEPT !.state = "Wait", !.pc = "idle",
                                 !.result = "Pending"]
               ELSE [pipe EXCEPT !.pc = "loop"]
    /\ cell' = cell
    /\ PipeFrame

\* poll_next in State::Wait: the delay is polled.
Stream_Wait ==
    /\ pipe.kind = "stream" /\ pipe.pc = "loop" /\ pipe.state = "Wait"
    /\ pipe' = IF now < pipe.deadline
               THEN [pipe EXCEPT !.pc = "idle", !.result = "Pending"]
               ELSE [pipe EXCEPT !.state = "NotReady"]
    /\ cell' = cell
    /\ PipeFrame

\* A stream made on a never-used limiter: RatelimitedStream::new.
InitStream ==
    /\ quota \in QuotasLegacy
    /\ gcra = Legacy_Gcra_new(quota)
    /\ overflow_checks = FALSE
    /\ start = 0
    /\ now = 0
    /\ cell = 0
    /\ last = NoCall
    /\ denial = None
    /\ burst = NoBurst
    /\ recent = NoRecent
    /\ watch = "none"
    /\ thr = [i \in Threads |-> Idle]
    /\ spurious = 0
    /\ cell0 = 0
    /\ seqCell = 0
    /\ peeked = None
    /\ twin = None
    /\ \E jitter \in Jitters :
           NotKeyedWith([NoPipe EXCEPT !.kind = "stream",
                                       !.state = "ReadInner",
                                       !.jitter = jitter])

NextStream ==
    \/ Stream_poll_next
    \/ \E inner \in {"Some", "Pending", "None"} : Stream_ReadInner(inner)
    \/ \E jitter \in Jitters : Stream_NotReady(jitter)
    \/ Stream_NotReady_delay
    \/ Stream_Wait
    \/ \E by \in 1 .. MaxNow : advance(by, MaxNow)

SpecStream == InitStream /\ [][NextStream]_vars

\* ------------------------------------------------ the until_ready futures
\* What a step of a future leaves alone: all but the store and the future.
FutureFrame ==
    /\ UNCHANGED << quota, gcra, overflow_checks, start, now, cell, last,
                    denial, burst, recent, watch >>
    /\ UNCHANGED << concvars, peekvars >>
    /\ UNCHANGED << hasher, store_type, calc, middleware, own, evicted,
                    klast, kthr >>

\* The batch sizes of until_key_n_ready: within and beyond the burst
\* sizes, one of them with a product t * (n - 1) that leaves the u64 range.
FutureBatchSizes == {2, 4, 9}

\* RateLimiter::until_key_ready_with_jitter: the future is made and polled.
until_key_ready_with_jitter(key, jitter) ==
    /\ pipe.kind = "none"
    /\ pipe' = [NoPipe EXCEPT !.kind = "future", !.state = "until_key_ready",
                              !.pc = "check", !.key = key, !.n = 1,
                              !.jitter = jitter]
    /\ store' = store
    /\ FutureFrame

\* RateLimiter::until_key_n_ready_with_jitter
until_key_n_ready_with_jitter(key, n, jitter) ==
    /\ pipe.kind = "none"
    /\ pipe' = [NoPipe EXCEPT !.kind = "future",
                              !.state = "until_key_n_ready",
                              !.pc = "check", !.key = key, !.n = n,
                              !.jitter = jitter]
    /\ store' = store
    /\ FutureFrame

\* The head of the loop: self.check_key(key) or self.check_key_n(key, n)?;
\* Ok and InsufficientCapacity (and a panic) end the future, a denial goes
\* to the Err arm.
Future_check_key ==
    LET op == IF pipe.state = "until_key_ready" THEN "check" ELSE "check_n"
        g == Gcra_of_key(middleware, pipe.key)
        early == op = "check_n" /\ exceeds_capacity(g, pipe.n)
        out == DecisionBy(g, op, pipe.n, duration_since(now, start),
                          KeyedStore_observed(store, pipe.key))
    IN  /\ pipe.kind = "future" /\ pipe.pc = "check"
        /\ store' = IF out.kind = "Panic" THEN store
                    ELSE KeyedStore_after(store, pipe.key, early, out)
        /\ pipe' = IF out.kind = "NotUntil"
                   THEN [pipe EXCEPT !.pc = "denied", !.checks = @ + 1,
                                     !.earliest = earliest_possible(out)]
                   ELSE [pipe EXCEPT !.pc = "done", !.checks = @ + 1,
                                     !.result = out.kind,
                                     !.admitted =
                                         IF out.kind = "Ok" THEN @ + 1 ELSE @]
        /\ FutureFrame

\* The Err arm: Delay::new(jitter + negative.wait_time_from(
\* self.clock.now())), made when the clock is read.
Future_Delay_new ==
    LET from == now
        wait == duration_since(pipe.earliest, Min(pipe.earliest, from))
    IN  /\ pipe.kind = "future" /\ pipe.pc = "denied"
        /\ pipe' = [pipe EXCEPT !.pc = "sleep", !.delays = @ + 1,
                                !.deadline = now + pipe.jitter + wait]
        /\ store' = store
        /\ FutureFrame

\* delay.await: the delay has elapsed and the loop starts over.
Future_delay_await ==
    /\ pipe.kind = "future" /\ pipe.pc = "sleep"
    /\ now >= pipe.deadline
    /\ pipe' = [pipe EXCEPT !.pc = "check"]
    /\ store' = store
    /\ FutureFrame

\* A keyed limiter on an empty store, with the quotas of the keyed
\* specifications and the slow quota.
InitFuture ==
    /\ quota \in QuotasKeyed \cup {[max_burst |-> 2, replenish_1_per |-> 32]}
    /\ gcra = Gcra_new(quota)
    /\ overflow_checks \in BOOLEAN
    /\ start \in {0, 1}
    /\ now = start
    /\ cell = 0
    /\ last = NoCall
    /\ denial = None
    /\ burst = NoBurst
    /\ recent = NoRecent
    /\ watch = "none"
    /\ thr = [i \in Threads |-> Idle]
    /\ spurious = 0
    /\ cell0 = 0
    /\ seqCell = 0
    /\ peeked = None
    /\ twin = None
    /\ store = EmptyStore
    /\ hasher = "CustomHasher"
    /\ store_type = "HashMapStateStore"
    /\ pipe = NoPipe
    /\ calc = NoCalc
    /\ middleware = "NoOpMiddleware"
    /\ own = [k \in Keys |-> 0]
    /\ evicted = {}
    /\ klast = NoKeyedCall
    /\ kthr = [i \in Threads |-> KeyedIdle]

\* Calls on the keys, then one future with no other caller.
NextFuture ==
    \/ \E key \in Keys : pipe.kind = "none" /\ check_key(key)
    \/ \E key \in Keys, jitter \in Jitters :
           until_key_ready_with_jitter(key, jitter)
    \/ \E key \in Keys, n \in FutureBatchSizes, jitter \in Jitters :
           until_key_n_ready_with_jitter(key, n, jitter)
    \/ Future_check_key
    \/ Future_Delay_new
    \/ Future_delay_await
    \/ \E by \in 1 .. MaxNowKeyed : advance(by, MaxNowKeyed)

SpecFuture == InitFuture /\ [][NextFuture]_vars

\* ============================================================ properties
RECURSIVE SumRecent(_, _)
SumRecent(a, b) == IF a > b THEN 0 ELSE recent[a] + SumRecent(a + 1, b)

\* The tat a call decided on: a never-used cell counts as tat = t0.
SeenTat == IF last.prev = 0 THEN last.t0 ELSE last.prev

Done == { i \in Threads : thr[i].pc = "done" }
Admitted == { i \in Done : thr[i].out.kind = "Ok" }
Quiescent == \A i \in Threads : thr[i].pc \in {"idle", "done"}

\* The calls made so far are check() calls that sampled the same clock
\* reading, on a cell that was never used or full at that reading.
SameInstantChecks ==
    /\ Quiescent /\ Done # {}
    /\ \A i \in Done : thr[i].op = "check" /\ Replenished(cell0, thr[i].t0)
    /\ \A i, j \in Done : thr[i].t0 = thr[j].t0

\* C1: when N threads have called check() concurrently at one clock
\* instant on a never-used or full cell of burst B, exactly min(N, B) calls
\* were admitted and the others denied, and no two admitted calls were
\* based on the same observed tat.
C1_ExactlyMinAdmitted ==
    SameInstantChecks =>
        /\ Cardinality(Admitted) = Min(Cardinality(Done), quota.max_burst)
        /\ \A i \in Done \ Admitted : thr[i].out.kind = "NotUntil"
        /\ \A i, j \in Admitted : i # j => thr[i].seen # thr[j].seen

C1_Witness ==
    /\ SameInstantChecks /\ Done = Threads
    /\ cell0 # 0
    /\ quota.max_burst < NThreads
    /\ Cardinality(Admitted) = quota.max_burst
    /\ \E i \in Admitted : thr[i].retried
    /\ \E i \in Done \ Admitted : thr[i].retried

\* C5: under every interleaving of concurrent check, check_n and
\* check_any_n calls on one cell, every outcome returned is the outcome of
\* the call in a sequential execution of the same calls (each with the t0
\* it sampled), and the stored tat is the tat of that execution.
C5_Linearisable ==
    /\ cell = seqCell
    /\ \A i \in Done : thr[i].out = thr[i].lin

C5_Witness ==
    /\ Done = Threads
    /\ \E i, j \in Threads :
           /\ thr[i].op = "check_n" /\ thr[i].out.kind = "Ok"
           /\ thr[i].retried
           /\ thr[j].op = "check_any_n" /\ thr[j].out.cells > 0
           /\ thr[i].t0 # thr[j].t0

\* C2: a check() at offset t0 against stored tat (never-used: tat = t0) is
\* admitted iff t0 >= tat -. tau; when admitted the stored tat becomes
\* max(tat, t0) + t, and when denied it stays as it was.
C2_SingleCellDecision ==
    last.op = "check" =>
        LET conforming == last.t0 >= Monus(SeenTat, gcra.tau)
        IN  /\ last.t0 = now - start
            /\ last.out.kind = (IF conforming THEN "Ok" ELSE "NotUntil")
            /\ cell = (IF conforming
                       THEN Max(SeenTat, last.t0) + gcra.t ELSE last.prev)

C2_Witness ==
    /\ last.op = "check" /\ last.out.kind = "Ok"
    /\ last.prev # 0 /\ last.prev < last.t0
    /\ cell = last.t0 + gcra.t

C4_AdmissionBound ==
    \A a, b \in 0 .. MaxWindow :
        a <= b =>
            SumRecent(a, b) <= ((b - a) \div gcra.t) + (gcra.tau \div gcra.t + 1)

\* C6: after check() was denied with NotUntil e and no other call was made,
\* check() at the instant e.earliest_possible() is admitted and check() at
\* any earlier instant is denied with the same instant; advancing the clock
\* by e.wait_time_from(now) from the denial leads to that instant.
C6_DenialIsHonest ==
    /\ (last.op = "check" /\ last.hint # None) =>
           /\ now = last.hint[1] => last.out.kind = "Ok"
           /\ now < last.hint[1] =>
                  /\ last.out.kind = "NotUntil"
                  /\ earliest_possible(last.out) = last.hint[1]
    /\ (last.op = "check" /\ last.out.kind = "NotUntil") =>
           /\ denial = Some(now + wait_time_from(last.out, now))
           /\ denial[1] > now

C6_Witness ==
    /\ last.op = "check" /\ last.hint # None
    /\ now = last.hint[1] /\ last.out.kind = "Ok"
    /\ start > 0

\* C7: check_n(n) with n > max_burst returns InsufficientCapacity(max_burst)
\* and stores nothing, in every cell state and at every clock reading.
C7_OverBurstIsInsufficientCapacity ==
    (last.op = "check_n" /\ last.n > quota.max_burst) =>
        /\ last.out.kind = "InsufficientCapacity"
        /\ last.out.tat = quota.max_burst
        /\ cell = last.prev

\* C8: for 1 <= n <= max_burst, check_n(n) at offset t0 is admitted iff
\* t0 >= (tat + (n - 1) * t) -. tau; when admitted the stored tat becomes
\* max(tat, t0) + n * t, and when denied it stays as it was.
C8_AllOrNothingBatch ==
    (last.op = "check_n" /\ last.n <= quota.max_burst) =>
        LET conforming ==
                last.t0 >= Monus(SeenTat + (last.n - 1) * gcra.t, gcra.tau)
        IN  /\ last.out.kind = (IF conforming THEN "Ok" ELSE "NotUntil")
            /\ cell = (IF conforming
                       THEN Max(SeenTat, last.t0) + last.n * gcra.t
                       ELSE last.prev)

C8_Witness ==
    /\ last.op = "check_n" /\ last.n >= 2 /\ last.n < quota.max_burst
    /\ last.out.kind = "NotUntil" /\ last.prev # 0
    /\ last.t0 >= Monus(last.prev, gcra.tau)

\* C9: check_any_n(n) never fails and admits k = min(n, max_available,
\* max_burst) cells, max_available being 0 if tat > t0 + tau and
\* (t0 + tau - tat) / t + 1 otherwise; the stored tat becomes
\* max(tat, t0) + k * t if k > 0 and is unchanged if k = 0.
C9_PartialVending ==
    last.op = "check_any_n" =>
        LET max_available ==
                IF SeenTat > last.t0 + gcra.tau THEN 0
                ELSE ((last.t0 + gcra.tau - SeenTat) \div gcra.t) + 1
            k == Min(Min(last.n, max_available), quota.max_burst)
        IN  /\ last.out.kind = "Ok"
            /\ last.out.cells = k
            /\ cell = (IF k > 0 THEN Max(SeenTat, last.t0) + k * gcra.t
                       ELSE last.prev)

\* C10: over a run of check_any_n calls made at one instant that begins on
\* a never-used or full cell, every call that returns gives k <= n and the
\* sum of the k never exceeds max_burst; from a never-used cell each call
\* returns min(n, max_burst - cells already vended) (capacity 10: requests
\* 7, 10, 10 return 7, 3, 0).
C10_VendingWithinBurst ==
    (burst.op = "check_any_n" /\ burst.at = now) =>
        /\ burst.k <= burst.n
        /\ burst.cells <= quota.max_burst
        /\ burst.from = 0 =>
               burst.k = Min(burst.n, quota.max_burst - (burst.cells - burst.k))

C10_Witness ==
    /\ burst.op = "check_any_n" /\ burst.at = now /\ burst.from = 0
    /\ quota.max_burst = 10
    /\ burst.n = 10 /\ burst.k = 3 /\ burst.cells = 10

\* C13: a peek (check_only, check_n_only) made with no concurrent call
\* leaves the stored tat as it was (0 for a never-used cell); a second peek
\* of the same kind made right after it returns the identical outcome, and
\* the call it previews, made right after it, returns the same verdict.
C13_PeekIsSilent ==
    /\ last.op \in PeekOps => cell = last.prev
    /\ ( /\ last.hint # None /\ last.op \notin {"none", "reset"}
         /\ Previewed(last.hint[1].op) = Previewed(last.op)
         /\ last.hint[1].n = last.n ) =>
           IF last.op \in PeekOps
           THEN last.out = last.hint[1].out
           ELSE last.out.kind = last.hint[1].out.kind

C13_Witness ==
    /\ last.op = "check" /\ last.hint # None
    /\ last.hint[1].op = "check_only"
    /\ last.prev = 0 /\ last.out.kind = "Ok"
    /\ quota.max_burst = 1

\* C17: after reset the cell holds 0, and from then on every call returns
\* what a never-used cell given the same calls at the same clock readings
\* returns, and stores what that cell stores, whatever the cell held before
\* the reset.
C17_ResetIsFresh ==
    /\ last.op = "reset" => cell = 0
    /\ (twin # None /\ last.op \notin {"none", "reset"}) =>
           /\ last.out = twin[1].out
           /\ cell = twin[1].cell

C17_Witness ==
    /\ twin # None /\ last.op = "check" /\ last.out.kind = "Ok"
    /\ quota.max_burst >= 2
    /\ twin[1].before
    /\ cell = last.t0 + quota.max_burst * gcra.t

\* C12: once a peek and the calls running beside it have all returned, the
\* cell holds what the calls other than peeks produce on their own (the
\* value it had before, if all of them were peeks).
C12_PeekLeavesNoTrace ==
    (\A i \in Threads : thr[i].pc = "done") => cell = seqCell

\* C19: from a never-used limiter of burst B, the k-th check in a row at
\* one instant is admitted and reports B - k remaining cells, and the check
\* after the B-th is denied; every reported value is
\* floor(min(now + tau + t - tat, tau + t) / t) for the tat just stored, and
\* lies between 0 and B.
C19_RemainingBurstCapacity ==
    /\ ( /\ last.op = "check" /\ burst.op = "check"
         /\ burst.from = 0 /\ burst.at = now ) =>
           IF burst.denied THEN burst.cells = quota.max_burst
           ELSE /\ last.out.kind = "Ok"
                /\ Reported = quota.max_burst - burst.cells
    /\ (last.op = "check" /\ last.out.kind = "Ok") =>
           /\ Reported =
                  Min(Monus(last.t0 + gcra.tau + gcra.t, last.out.tat),
                      gcra.tau + gcra.t) \div gcra.t
           /\ Reported \in 0 .. quota.max_burst

\* C20: with a burst of 2, once the burst was used and the limiter has
\* idled long after, the checks made in a row at one instant are admitted
\* three times, reporting 2, 1 and 0 remaining cells, and then denied.
C20_ReportedAfterIdle ==
    ( /\ quota.max_burst = 2
      /\ last.op = "check" /\ burst.op = "check"
      /\ burst.from # 0 /\ burst.from + gcra.tau <= burst.at - start
      /\ burst.at = now ) =>
        IF burst.denied THEN burst.cells = 3
        ELSE /\ last.out.kind = "Ok"
             /\ Reported = 3 - burst.cells

\* The keyed calls that decide.
KeyedDecisions == {"check", "check_n", "check_only"}

\* C11: whatever is done on the other keys, with equal hash values or not,
\* each key's stored tat and each outcome on it are those of a cell of its
\* own that is given the key's calls alone.
C11_KeyedIsolation ==
    /\ \A k \in Keys : Stored(store, k) = own[k]
    /\ klast.op \in KeyedDecisions => klast.out = klast.lin
C11_Witness ==
    /\ hasher = "BadHasher" /\ quota.max_burst >= 2
    /\ klast.op = "check" /\ klast.key = 2 /\ klast.out.kind = "Ok"
    /\ Stored(store, 2) = klast.t0 + quota.max_burst * gcra.t
    /\ Stored(store, 1) > klast.t0 + gcra.tau

\* C14: retain_recent at clock reading now keeps exactly the keys whose
\* stored tat is above (now - start) saturating-minus t, with their
\* values, and removes all others.
C14_RetainRecentExact ==
    klast.op = "retain_recent" =>
        /\ DOMAIN store =
               { k \in DOMAIN klast.before :
                    klast.before[k] > Monus(klast.t0, gcra.t) }
        /\ \A k \in DOMAIN store : store[k] = klast.before[k]
C14_Witness ==
    /\ klast.op = "retain_recent"
    /\ DOMAIN store # {}
    /\ \E k \in DOMAIN klast.before \ DOMAIN store :
           klast.before[k] = klast.t0 - gcra.t

\* C15: a decision on a key that retain_recent has removed gives the
\* outcome, and stores the tat, that it gives when no key is ever removed.
C15_EvictionSafety ==
    (klast.op \in KeyedDecisions /\ klast.key \in evicted) =>
        /\ klast.out = klast.lin
        /\ (klast.out.kind = "Ok" /\ klast.op \notin PeekOps) =>
               Stored(store, klast.key) = own[klast.key]
C15_Witness ==
    /\ klast.key \in evicted /\ ~klast.found
    /\ klast.op = "check_n" /\ klast.out.kind = "Ok"
    /\ own[klast.key] = klast.t0 + klast.n * gcra.t

C16_EvictionRaceInvisible ==
    \A i \in Threads :
        (kthr[i].pc = "done" /\ kthr[i].op = "check") =>
            kthr[i].out.kind = kthr[i].lin.kind

\* C21: check_n(1) is check(): on every cell value and at every clock
\* reading, each returns the verdict and stores the tat that the other one
\* returns and stores there.
C21_CheckNOneIsCheck ==
    /\ (last.op = "check_n" /\ last.n = 1) =>
           LET one == Decision("check", 1, last.t0, last.prev)
           IN  /\ last.out = one
               /\ cell = (IF one.kind = "Ok" THEN one.tat ELSE last.prev)
    /\ last.op = "check" =>
           LET all == Decision("check_n", 1, last.t0, last.prev)
           IN  /\ last.out = all
               /\ cell = (IF all.kind = "Ok" THEN all.tat ELSE last.prev)

C21_Witness ==
    /\ last.op = "check_n" /\ last.n = 1 /\ last.out.kind = "Ok"
    /\ last.prev # 0 /\ last.prev < last.t0
    /\ cell = last.t0 + gcra.t

\* C22: a quota built from a rate per second and a burst size, turned into
\* the parameters (t, tau) of its Gcra and back with from_gcra_parameters,
\* is the quota it was.
C22_QuotaRoundTrip ==
    calc.op = "roundtrips_quota" => calc.out = calc.a

\* C23: the clones of a FakeRelativeClock read one counter; concurrent
\* advance(a) and advance(b) move it forward by exactly a + b, each
\* advance taking effect once, and its readings never decrease.
C23_AdvancesAddUp ==
    /\ [](now = seqCell)
    /\ [][now' >= now]_vars
    /\ [][\A i \in Threads :
              (thr[i].op = "advance" /\ thr[i].pc # "done"
                                    /\ thr'[i].pc = "done") =>
                  now' = now + thr[i].n]_vars

C23_Witness ==
    /\ Done = Threads /\ spurious = 0
    /\ \A i \in Threads : thr[i].op = "advance"
    /\ \E i, j \in Threads : thr[i].n # thr[j].n /\ thr[i].retried
    /\ now >= 3

\* C24, as stated: for every instant type and all instants a and b,
\* a.duration_since(b) does not panic and is a - b if a >= b and zero if
\* a < b.
C24_DurationSinceSaturates ==
    calc.op = "duration_since" =>
        /\ ~calc.panics
        /\ calc.out = Monus(calc.a, calc.b)

\* C24, for instants that are no more than the range of a Nanos apart:
\* a.duration_since(b) does not panic and is a - b if a >= b and zero if
\* a < b, however far b lies after a.
C24_DurationSinceWithinRange ==
    (calc.op = "duration_since" /\ calc.a - calc.b < U64Modulus) =>
        /\ ~calc.panics
        /\ calc.out = Monus(calc.a, calc.b)

C24_Witness ==
    /\ calc.op = "duration_since" /\ calc.ty = "SystemTime"
    /\ calc.b >= U64Modulus /\ calc.a < calc.b
    /\ calc.out = 0 /\ ~calc.panics

\* C25: a check or check_n that is denied (NotUntil) or refused for want
\* of capacity (InsufficientCapacity) leaves the stored tat as it was and
\* admits no cell of the batch; the caller gets the error of the decision
\* made on that tat.
C25_ErrStoresNothing ==
    ( /\ last.op \in {"check", "check_n"}
      /\ last.out.kind \in {"NotUntil", "InsufficientCapacity"} ) =>
        /\ cell = last.prev
        /\ last.out.cells = 0
        /\ last.out = Decision(last.op, last.n, last.t0, last.prev)

C25_Witness ==
    /\ last.op = "check_n" /\ last.n >= 2 /\ last.out.kind = "NotUntil"
    /\ last.prev # 0 /\ cell = last.prev
    /\ Decision("check", 1, last.t0, last.prev).kind = "Ok"

\* C26: among concurrent check, check_n and check_any_n calls no step
\* lowers the stored tat, and the step by which a call admits cells
\* installs a tat that is at least the tat it replaces plus t and at least
\* the caller's t0 plus t.
C26_TatNeverDecreases ==
    [][ /\ cell' >= cell
        /\ \A i \in Threads :
               ( /\ thr[i].pc = "cas" /\ thr'[i].pc = "done"
                 /\ thr'[i].out.kind = "Ok" /\ thr'[i].out.cells > 0 ) =>
                   /\ cell' >= cell + gcra.t
                   /\ cell' >= thr[i].t0 + gcra.t ]_vars

C26_Witness ==
    /\ Done = Threads
    /\ \E i, j \in Admitted :
           /\ i # j /\ thr[i].retried /\ thr[i].out.cells > 0
           /\ thr[j].out.cells > 0
           /\ thr[i].seen = thr[j].out.tat /\ cell = thr[i].out.tat
           /\ cell >= thr[j].out.tat + gcra.t /\ cell >= thr[i].t0 + gcra.t
           /\ thr[i].t0 # thr[j].t0

\* C27: after every admitting decision the stored value is strictly
\* positive (it is at least t, and t is at least one nanosecond), also
\* when the decision was made on a never-used cell at t0 = 0.
C27_AdmittedCellIsPositive ==
    ( /\ last.op \in {"check", "check_n", "check_any_n"}
      /\ last.out.kind = "Ok" ) =>
        /\ gcra.t >= 1
        /\ cell >= gcra.t
        /\ NonZeroU64_new(cell) # None

C27_Witness ==
    /\ last.op = "check" /\ last.out.kind = "Ok"
    /\ last.t0 = 0 /\ last.prev = 0
    /\ quota.replenish_1_per = 0 /\ cell = 1

\* C28: a caller whose compare-exchange failed decides again on the value
\* the failure returned, with the t0 it sampled when it was called (it is
\* not changed while the call lasts, whatever the clock does); the
\* outcome of an admitted call is the decision on the very value its
\* successful compare-exchange replaced, and that of a refused call the
\* decision on the value it observed last.
C28_RetryDecidesAfresh ==
    /\ [](\A i \in Done :
              IF thr[i].out.kind = "Ok"
              THEN /\ thr[i].out = Outcome(closure(thr[i].op, thr[i].n,
                                                  thr[i].t0, thr[i].replaced))
                   /\ thr[i].out.time_of_measurement = thr[i].t0
              ELSE thr[i].pc = "done" /\ thr[i].retried =>
                       thr[i].out = Outcome(closure(thr[i].op, thr[i].n,
                                                    thr[i].t0, thr[i].prev)))
    /\ [][\A i \in Threads :
              thr[i].pc # "idle" => thr'[i].t0 = thr[i].t0]_vars

C28_Witness ==
    \E i \in Admitted :
        /\ thr[i].retried /\ spurious = 0
        /\ thr[i].t0 < duration_since(now, start)
        /\ thr[i].replaced # cell0
        /\ thr[i].out # Outcome(closure(thr[i].op, thr[i].n, thr[i].t0, cell0))

\* A compare-exchange of thread i has failed in this step.
FailedExchange(i) ==
    /\ thr[i].pc = "cas" /\ cell' = cell
    /\ thr'[i] # thr[i] \/ spurious' # spurious
    /\ ~(thr'[i].pc = "done" /\ thr'[i].out.kind = "Ok")

\* Every call that has entered the loop returns: whenever some thread is
\* inside the loop, a moment follows at which none is.
EveryCallReturns ==
    (\E i \in Threads : InLoop(i)) ~> (\A i \in Threads : ~InLoop(i))

\* C29, as stated: a compare-exchange fails only when the cell no longer
\* holds the value the caller read, another caller's write having
\* succeeded; every call returns.
C29_FailsOnlyOnWrite ==
    /\ [][\A i \in Threads : FailedExchange(i) => cell # thr[i].prev]_vars
    /\ EveryCallReturns

\* C29, with the failures compare_exchange_weak has of its own: a
\* compare-exchange fails because another caller's write has changed the
\* cell since the caller read it, or spuriously; a thread inside the loop
\* always has a step to take, whatever the other threads do; and with
\* finitely many calls and spurious failures every call returns.
C29_LockFree ==
    /\ [][\A i \in Threads :
              FailedExchange(i) =>
                  cell # thr[i].prev \/ spurious' = spurious + 1]_vars
    /\ [](\A i \in Threads : InLoop(i) => ENABLED LoopStep(i))
    /\ EveryCallReturns

C29_Witness ==
    /\ Done = Threads /\ spurious = MaxSpurious
    /\ \E i, j \in Admitted :
           /\ i # j /\ thr[i].retried
           /\ thr[i].replaced = thr[j].out.tat

\* The sums a batch call computes on the cell it read, as plain integers.
SumsAreExact(op, n, t0, tat) ==
    LET additional == gcra.t * (n - 1)
    IN  IF op = "check_n"
        THEN /\ tat + additional < U64Modulus
             /\ t0 >= Monus(tat + additional, gcra.tau) =>
                    Max(tat, t0) + gcra.t + additional < U64Modulus
        ELSE /\ t0 + gcra.tau < U64Modulus
             /\ Max(tat, t0) + gcra.t + gcra.tau < U64Modulus

\* C30: the arithmetic of check_n and check_any_n never overflows or wraps:
\* for every quota, every n and every cell state the product t * (n - 1)
\* is the true product, so that the capacity test t * (n - 1) > tau is
\* decided on it, and the sums are the true sums.
C30_ArithmeticIsExact ==
    last.op \in {"check_n", "check_any_n"} =>
        /\ last.op = "check_n" =>
               /\ ~Nanos_mul_overflows(gcra.t, last.n - 1)
               /\ exceeds_capacity(gcra, last.n)
                      <=> gcra.t * (last.n - 1) > gcra.tau
        /\ (last.op = "check_any_n" \/ ~exceeds_capacity(gcra, last.n)) =>
               SumsAreExact(last.op, last.n, last.t0, SeenTat)

\* C31: the cell cost t is at least 1 ns for every quota, also for one whose
\* replenish interval is zero, so that no division by t divides by zero, and
\* every call that admits cells leaves a tat at least 1 ns beyond the tat it
\* read and beyond the clock reading it was made at.
C31_CellCostIsPositive ==
    /\ gcra.t >= 1
    /\ (last.op # "none" /\ last.out.kind = "Ok" /\ last.out.cells >= 1) =>
           /\ cell = last.out.tat
           /\ cell >= SeenTat + 1
           /\ cell >= last.t0 + 1

C31_Witness ==
    /\ quota.replenish_1_per = 0
    /\ last.op = "check_any_n"
    /\ last.prev # 0
    /\ last.out.kind = "Ok" /\ last.out.cells >= 2
    /\ cell = SeenTat + last.out.cells

\* check_n(k) decided on the cell and at the offset of the call made last.
CheckNInstead(k) ==
    test_n_all_and_update(gcra, k, last.t0, NonZeroU64_new(last.prev))
\* The largest batch of at most n cells that check_n would admit there.
LargestAdmittedBatch(n) ==
    LET admitted == { k \in 1 .. n : CheckNInstead(k).kind = "Ok" }
    IN  IF admitted = {} THEN 0
        ELSE CHOOSE k \in admitted : \A j \in admitted : j <= k

\* C32: check_any_n(n) admits exactly the largest k <= n for which
\* check_n(k) would be admitted on the same cell at the same time (none when
\* even a single cell would be denied) and stores the tat check_n(k) would
\* store.
C32_AnyNIsLargestAllN ==
    last.op = "check_any_n" =>
        LET k == LargestAdmittedBatch(last.n)
        IN  /\ last.out.kind = "Ok"
            /\ last.out.cells = k
            /\ cell = (IF k = 0 THEN last.prev ELSE CheckNInstead(k).tat)

\* The cell after up to n consecutive calls of check() at offset t0 on a cell
\* holding `value`, none of them denied; None when one of them is denied.
RECURSIVE ChecksInARow(_, _, _)
ChecksInARow(n, t0, value) ==
    IF n = 0 THEN Some(value)
    ELSE LET out == test_and_update(gcra, t0, NonZeroU64_new(value))
         IN  IF out.kind = "Ok" THEN ChecksInARow(n - 1, t0, out.tat)
             ELSE None

\* C33: check_n(n) is admitted at t0 exactly when n consecutive calls of
\* check() at t0 on the same cell would all be admitted, and then both leave
\* the same tat in the cell.
C33_BatchIsChecksInARow ==
    last.op = "check_n" =>
        LET singly == ChecksInARow(last.n, last.t0, last.prev)
        IN  /\ last.out.kind = "Ok" <=> singly # None
            /\ last.out.kind = "Ok" => cell = singly[1]

\* C34: after every call that admits cells at clock offset t0 the stored tat
\* is at most t0 + t + tau, and the cell changes in no other step; so the
\* stored tat is never more than one full burst ahead of the largest clock
\* reading an admitted decision was made at.
C34_TatWithinOneBurst ==
    /\ [](  (last.op # "none" /\ last.out.kind = "Ok" /\ last.out.cells >= 1)
              => cell <= last.t0 + gcra.t + gcra.tau)
    /\ [][cell' # cell =>
              /\ last'.out.kind = "Ok" /\ last'.out.cells >= 1
              /\ cell' = last'.out.tat
              /\ last'.t0 = duration_since(now, start)]_vars

C34_Witness ==
    /\ last.op = "check_n" /\ last.n >= 2 /\ last.prev > last.t0
    /\ last.out.kind = "Ok"
    /\ cell = last.t0 + gcra.t + gcra.tau

\* The calls of check_key on `key` that have been decided, and those of them
\* that were admitted.
CallsOn(key) ==
    SumOver(Threads,
            [i \in Threads |->
                kthr[i].calls[key]
                + (IF kthr[i].pc = "done" /\ kthr[i].key = key
                   THEN 1 ELSE 0)])
AdmittedOn(key) ==
    SumOver(Threads,
            [i \in Threads |->
                kthr[i].admitted[key]
                + (IF /\ kthr[i].pc = "done" /\ kthr[i].key = key
                      /\ kthr[i].out.kind = "Ok" THEN 1 ELSE 0)])
InCallOn(key) ==
    { i \in Threads : kthr[i].key = key /\ kthr[i].pc \notin {"idle", "done"} }

\* C35: when threads call check_key concurrently for a key that is not in
\* the store, one cell is made for the key and every call is decided on it:
\* once N calls made at one instant have returned, exactly min(N, max_burst)
\* of them were admitted, on the HashMap and on the DashMap store.
C35_FirstCallsShareOneCell ==
    \A key \in Keys :
        InCallOn(key) = {} =>
            /\ AdmittedOn(key) = Min(CallsOn(key), quota.max_burst)
            /\ (key \in DOMAIN store) <=> CallsOn(key) > 0
            /\ Stored(store, key) = own[key]
            /\ \A i \in Threads :
                   (kthr[i].pc = "done" /\ kthr[i].key = key) =>
                       kthr[i].out = kthr[i].lin

C35_Witness ==
    /\ store_type = "DashMapStateStore"
    /\ quota.max_burst = 1
    /\ \A i \in Threads :
           /\ kthr[i].pc = "done" /\ kthr[i].key = 1
           /\ kthr[i].calls[1] = 0 /\ ~kthr[i].found
    /\ AdmittedOn(1) = 1
    /\ DOMAIN store = {1}

\* C36: a check_key_n that returns InsufficientCapacity leaves the keyed
\* store as it was: no entry is made for a key that was not present, no
\* stored tat changes, and len() is the same.
C36_InsufficientCapacityLeavesStore ==
    [][(klast'.op = "check_n" /\ klast'.out.kind = "InsufficientCapacity") =>
           /\ store' = store
           /\ Cardinality(DOMAIN store') = Cardinality(DOMAIN store)
           /\ klast'.found <=> klast'.key \in DOMAIN store']_vars

C36_Witness ==
    /\ klast.op = "check_n" /\ klast.out.kind = "InsufficientCapacity"
    /\ ~klast.found
    /\ klast.key \notin DOMAIN store
    /\ Cardinality(DOMAIN store) = 1

\* C37: the inner sink is given an item only by a start_send made in state
\* Ready, which leaves the state NotReady; the state becomes Ready only by an
\* admitted check of the limiter made in poll_ready; a poll_ready made in
\* state Ready checks nothing; so each item sent has used one admitted cell
\* of its own.
C37_SinkSendsOnAdmittedCheck ==
    /\ [][Len(pipe'.passed) # Len(pipe.passed) =>
              /\ pipe.state = "Ready" /\ pipe'.state = "NotReady"
              /\ Len(pipe'.passed) = Len(pipe.passed) + 1
              /\ cell' = cell]_vars
    /\ [][(pipe'.state = "Ready" /\ pipe.state # "Ready") =>
              /\ pipe.pc = "loop" /\ pipe.state = "NotReady"
              /\ pipe'.checks = pipe.checks + 1
              /\ pipe'.admitted = pipe.admitted + 1
              /\ cell' > cell]_vars
    /\ [][pipe.state = "Ready" =>
              pipe'.checks = pipe.checks /\ cell' = cell]_vars
    /\ [][cell' # cell => pipe'.admitted = pipe.admitted + 1]_vars
    /\ [](pipe.admitted =
              Len(pipe.passed) + (IF pipe.state = "Ready" THEN 1 ELSE 0))

C37_Witness ==
    /\ pipe.kind = "sink" /\ pipe.result = "none" /\ pipe.state = "NotReady"
    /\ Len(pipe.passed) = quota.max_burst + 2
    /\ pipe.admitted = Len(pipe.passed)
    /\ pipe.checks > pipe.admitted

\* C38: the stream holds an item exactly while it is not in state ReadInner,
\* that is at most one; the inner stream gives no item while one is held;
\* an item is yielded only by a step in which a check of the limiter made for
\* it is admitted; and the items are yielded in the order the inner stream
\* produced them, none being lost.
C38_StreamYieldsOnAdmittedCheck ==
    /\ [](pipe.kind = "stream" =>
              /\ pipe.buf # 0 <=> pipe.state # "ReadInner"
              /\ pipe.passed = [i \in 1 .. Len(pipe.passed) |-> i]
              /\ pipe.admitted = Len(pipe.passed)
              /\ pipe.produced =
                     Len(pipe.passed) + (IF pipe.buf # 0 THEN 1 ELSE 0))
    /\ [][pipe'.produced # pipe.produced =>
              pipe.buf = 0 /\ pipe'.buf = pipe'.produced]_vars
    /\ [][pipe'.passed # pipe.passed =>
              /\ pipe.buf # 0 /\ pipe'.passed = Append(pipe.passed, pipe.buf)
              /\ pipe'.checks = pipe.checks + 1
              /\ pipe'.admitted = pipe.admitted + 1
              /\ cell' > cell]_vars
    /\ [][cell' # cell => Len(pipe'.passed) = Len(pipe.passed) + 1]_vars

C38_Witness ==
    /\ pipe.kind = "stream" /\ pipe.state = "Wait" /\ pipe.buf # 0
    /\ Len(pipe.passed) = quota.max_burst + 2
    /\ pipe.buf = Len(pipe.passed) + 1
    /\ pipe.checks > pipe.admitted + 1

\* C39: a future on a key that no other caller uses sleeps at most once (the
\* check made after the delay is not denied), and until_key_n_ready with a
\* batch larger than the burst size ends at its first check with
\* InsufficientCapacity, without a delay.
C39_FutureResolves ==
    pipe.kind = "future" =>
        /\ pipe.delays <= 1
        /\ pipe.delays = 1 /\ pipe.checks = 2 => pipe.pc = "done"
        /\ pipe.n > quota.max_burst /\ pipe.checks > 0 =>
               /\ pipe.pc = "done"
               /\ pipe.result = "InsufficientCapacity"
               /\ pipe.checks = 1 /\ pipe.delays = 0
====
